---- MODULE Spec2Model ----
(***************************************************************************)
(* HS-Code-Predictor: the classification / ranking core.                   *)
(*                                                                         *)
(*   Spec         combineAndRankCandidates of the enhanced-prediction edge *)
(*                function, one step per loop iteration / statement group. *)
(*   SpecAnalyze  analyzeProduct of the client: the keyword matcher, the   *)
(*                enhanced prediction, the semantic and keyword branches   *)
(*                of the catch block, the fallback and the final slice.    *)
(*   SpecEnhanced HTSLookupService.enhancedPrediction on the local         *)
(*                predictions a caller may hand it.                        *)
(*   SpecFallback getFallbackPredictions of the two copies of the analysis *)
(*                module, on every product descriptor.                     *)
(*   SpecPolicy   calculateOverallConfidence and determineHumanReviewNeed  *)
(*                on candidate lists with confidences in half points.      *)
(*   SpecServe    the serve handler of the edge function: authorization,   *)
(*                validation, the three collaborator calls with their      *)
(*                failures, the pipeline, the stored row, the response.    *)
(*   SpecAwait    the same handler, one step per await: each collaborator  *)
(*                call and the insert settle in turn, or never do.         *)
(*                                                                         *)
(* JavaScript values are modelled as follows: an object is a record, a     *)
(* property that is undefined is a field the record does not have, null is *)
(* the function with the empty domain, an array is a sequence, a string is *)
(* a string (Len, \o and SubSeq act on strings).                           *)
(***************************************************************************)
EXTENDS Integers, Sequences, FiniteSets, TLC

(***************************************************************************)
(* Bounds of the model.                                                    *)
(***************************************************************************)
\* the longest semanticResults.matches array
MaxSemantic == 2
\* the longest htsResults array
MaxOfficial == 2
\* the longest localPredictions array handed to enhancedPrediction
MaxLocal == 2
\* the longest candidate list handed to the policy functions on their own
MaxPolicy == 2

(***************************************************************************)
(* JavaScript helpers.                                                     *)
(***************************************************************************)
Null == <<>>

IsNull(v) == DOMAIN v = {}

Has(obj, f) == f \in DOMAIN obj

\* obj.f is truthy, for a boolean property
Truthy(obj, f) == Has(obj, f) /\ obj[f]

\* obj with property f set to v (added when obj has no such property)
Assign(obj, f, v) == [g \in DOMAIN obj \cup {f} |-> IF g = f THEN v ELSE obj[g]]

Min(a, b) == IF a < b THEN a ELSE b

Max(a, b) == IF a > b THEN a ELSE b

LowerChar(c) ==
  CASE c = "A" -> "a" [] c = "B" -> "b" [] c = "C" -> "c" [] c = "D" -> "d"
    [] c = "E" -> "e" [] c = "F" -> "f" [] c = "G" -> "g" [] c = "H" -> "h"
    [] c = "I" -> "i" [] c = "J" -> "j" [] c = "K" -> "k" [] c = "L" -> "l"
    [] c = "M" -> "m" [] c = "N" -> "n" [] c = "O" -> "o" [] c = "P" -> "p"
    [] c = "Q" -> "q" [] c = "R" -> "r" [] c = "S" -> "s" [] c = "T" -> "t"
    [] c = "U" -> "u" [] c = "V" -> "v" [] c = "W" -> "w" [] c = "X" -> "x"
    [] c = "Y" -> "y" [] c = "Z" -> "z" [] OTHER -> c

RECURSIVE ToLowerCase(_)
\* String.prototype.toLowerCase, character by character (the string is halved
\* rather than peeled so that long descriptions stay shallow)
ToLowerCase(s) ==
  IF Len(s) = 0 THEN ""
  ELSE IF Len(s) = 1 THEN LowerChar(s)
  ELSE LET h == Len(s) \div 2
       IN ToLowerCase(SubSeq(s, 1, h)) \o ToLowerCase(SubSeq(s, h + 1, Len(s)))

\* String.prototype.includes
Includes(s, t) ==
  \E k \in 1..(Len(s) - Len(t) + 1) : SubSeq(s, k, k + Len(t) - 1) = t

\* Array.prototype.findIndex on the code property, 1-based; 0 when none
FindIndex(arr, code) ==
  IF \E k \in 1..Len(arr) : arr[k].code = code
  THEN CHOOSE k \in 1..Len(arr) :
         /\ arr[k].code = code
         /\ \A j \in 1..(k - 1) : arr[j].code # code
  ELSE 0

\* a descending sort that is not stable: an element goes before the elements
\* of equal key
StableSortDesc_TiesReversed(arr, keys) ==
  LET RECURSIVE Insert(_, _)
      Insert(sorted, i) ==
        IF Len(sorted) = 0 THEN <<i>>
        ELSE IF keys[Head(sorted)] > keys[i]
             THEN <<Head(sorted)>> \o Insert(Tail(sorted), i)
             ELSE <<i>> \o sorted
      RECURSIVE Sort(_)
      Sort(n) == IF n = 0 THEN <<>> ELSE Insert(Sort(n - 1), n)
      order == Sort(Len(arr))
  IN [k \in 1..Len(arr) |-> arr[order[k]]]

\* Array.prototype.sort((a, b) => key(b) - key(a)), keys[k] being the key of
\* arr[k]: descending and stable (an element goes after every element whose
\* key is not smaller)
StableSortDesc(arr, keys) ==
  LET RECURSIVE Insert(_, _)
      Insert(sorted, i) ==
        IF Len(sorted) = 0 THEN <<i>>
        ELSE IF keys[Head(sorted)] >= keys[i]
             THEN <<Head(sorted)>> \o Insert(Tail(sorted), i)
             ELSE <<i>> \o sorted
      RECURSIVE Sort(_)
      Sort(n) == IF n = 0 THEN <<>> ELSE Insert(Sort(n - 1), n)
      order == Sort(Len(arr))
  IN [k \in 1..Len(arr) |-> arr[order[k]]]

\* .sort((a, b) => b.confidence - a.confidence)
SortByConfidenceDesc(arr) ==
  StableSortDesc(arr, [k \in 1..Len(arr) |-> arr[k].confidence])

\* Array.prototype.slice(0, n)
Slice(arr, n) == SubSeq(arr, 1, Min(n, Len(arr)))

\* Array.prototype.includes
ArrayIncludes(arr, v) == \E k \in 1..Len(arr) : arr[k] = v

\* String.prototype.split(' '): one piece per space, empty pieces kept
SplitOnSpace(s) ==
  LET RECURSIVE From(_, _)
      From(k, cur) ==
        IF k > Len(s) THEN <<cur>>
        ELSE IF SubSeq(s, k, k) = " " THEN <<cur>> \o From(k + 1, "")
        ELSE From(k + 1, cur \o SubSeq(s, k, k))
  IN From(1, "")

\* a character of the class [\s&]
IsCategorySeparator(c) == c \in {" ", "&", "\t", "\n"}

\* String.prototype.split(/[\s&]+/): one piece per run of separators, the
\* empty piece before a leading run and after a trailing run kept
SplitOnSeparators(s) ==
  LET RECURSIVE From(_, _)
      From(k, cur) ==
        IF k > Len(s) THEN <<cur>>
        ELSE IF IsCategorySeparator(SubSeq(s, k, k))
             THEN IF k > 1 /\ IsCategorySeparator(SubSeq(s, k - 1, k - 1))
                  THEN From(k + 1, cur)
                  ELSE <<cur>> \o From(k + 1, "")
        ELSE From(k + 1, cur \o SubSeq(s, k, k))
  IN From(1, "")

(***************************************************************************)
(* Inputs of the combiner.                                                 *)
(***************************************************************************)
Codes == {"6912.00.48", "3926.90.99", "6109.10.00"}

\* one element of semanticMatches.matches: {code, confidence, reasoning};
\* the confidence may be missing, and a description may come with it
SemanticMatches ==
  [code : Codes, confidence : {60, 97}, reasoning : {"ranked by Gemini"}]
    \cup [code : Codes, reasoning : {"ranked by Gemini"}]
    \cup {[code |-> "6912.00.48", confidence |-> 97,
           description |-> "Ceramic mug", reasoning |-> "ranked by Gemini"]}

OfficialDescription(code) ==
  CASE code = "6912.00.48" -> "Ceramic tableware and kitchenware"
    [] code = "3926.90.99" -> "Other articles"
    [] OTHER -> "T-shirts, knitted or crocheted"

OfficialCategory(code) ==
  CASE code = "6912.00.48" -> "Ceramic products"
    [] code = "3926.90.99" -> "Plastics and articles thereof"
    [] OTHER -> "Articles of apparel"

\* one HTSEntry as the hts-lookup function answers it
OfficialEntry(code) ==
  [code |-> code,
   description |-> OfficialDescription(code),
   category |-> OfficialCategory(code),
   tariffInfo |-> [generalRate |-> "Free"],
   officialSource |-> "USITC HTS 2025 Revision 19"]

OfficialEntries == {OfficialEntry(c) : c \in Codes}

SeqsUpTo(S, n) == UNION {[1..k -> S] : k \in 0..n}

\* what getSemanticAnalysis returns: {matches: [...]} or, when Gemini answers
\* a JSON object of another shape, an object without matches
SemanticResultsInputs ==
  {[matches |-> m] : m \in SeqsUpTo(SemanticMatches, MaxSemantic)}
    \cup {[answer |-> "no ranking"]}

\* what getHTSSearchResults returns: the search of hts-lookup lists a code
\* once for every product mapping that matched, each time with the
\* description of that mapping
HtsResultsInputs ==
  SeqsUpTo(OfficialEntries
             \cup {[OfficialEntry("6109.10.00") EXCEPT
                      !.description = "T-shirts with plastic print"]},
           MaxOfficial)

\* what analyzeProductImage returns: null, an object without materials (the
\* parse-error branch), or the parsed analysis
ImageAnalysisInputs ==
  {Null,
   [classification_hints |-> <<"unparsed">>],
   [materials |-> <<"Ceramic", "plastic">>]}

(***************************************************************************)
(* combineAndRankCandidates, statement by statement.                       *)
(***************************************************************************)
\* match.confidence || 0
ConfidenceOrZero(match) == IF Has(match, "confidence") THEN match.confidence ELSE 0

\* SemanticCandidate without Math.min(..., 95)
SemanticCandidate_Uncapped(match) ==
  [code |-> match.code,
   description |-> IF Has(match, "description") THEN match.description ELSE "",
   confidence |-> ConfidenceOrZero(match),
   reasoning |-> IF Has(match, "reasoning") THEN match.reasoning
                 ELSE "AI semantic analysis"]

\* the candidate pushed for one semantic match
SemanticCandidate(match) ==
  [code |-> match.code,
   description |-> IF Has(match, "description") THEN match.description ELSE "",
   confidence |-> Min(ConfidenceOrZero(match), 95),
   reasoning |-> IF Has(match, "reasoning") THEN match.reasoning
                 ELSE "AI semantic analysis"]

\* the first loop: candidates after the semantic results were added
AddSemanticResults(semantic) ==
  IF Has(semantic, "matches")
  THEN [k \in 1..Len(semantic.matches) |-> SemanticCandidate(semantic.matches[k])]
  ELSE <<>>

\* BoostedCandidate with the boost capped at 99, the image cap, instead of 98
BoostedCandidate_Cap99(c, htsEntry) ==
  Assign(Assign(Assign(Assign(c,
    "confidence", Min(c.confidence + 20, 99)),
    "isOfficialMatch", TRUE),
    "officialSource", htsEntry.officialSource),
    "tariffInfo", htsEntry.tariffInfo)

\* the candidate at existingIndex after the official boost
BoostedCandidate(c, htsEntry) ==
  Assign(Assign(Assign(Assign(c,
    "confidence", Min(c.confidence + 20, 98)),
    "isOfficialMatch", TRUE),
    "officialSource", htsEntry.officialSource),
    "tariffInfo", htsEntry.tariffInfo)

\* the candidate pushed for an official entry whose code is new
NewOfficialCandidate(htsEntry) ==
  [code |-> htsEntry.code,
   description |-> htsEntry.description,
   confidence |-> 92,
   reasoning |-> "Official USITC database match",
   category |-> htsEntry.category,
   isOfficialMatch |-> TRUE,
   officialSource |-> htsEntry.officialSource,
   tariffInfo |-> htsEntry.tariffInfo]

\* MergeOfficialEntry without its else branch: a new code is not inserted
MergeOfficialEntry_BoostOnly(cands, htsEntry) ==
  LET existingIndex == FindIndex(cands, htsEntry.code)
  IN IF existingIndex >= 1
     THEN [cands EXCEPT ![existingIndex] = BoostedCandidate(@, htsEntry)]
     ELSE cands

\* one iteration of the second loop
MergeOfficialEntry(cands, htsEntry) ==
  LET existingIndex == FindIndex(cands, htsEntry.code)
  IN IF existingIndex >= 1
     THEN [cands EXCEPT ![existingIndex] = BoostedCandidate(@, htsEntry)]
     ELSE Append(cands, NewOfficialCandidate(htsEntry))

RECURSIVE MergeOfficialEntries(_, _)
\* the whole second loop
MergeOfficialEntries(cands, hts) ==
  IF Len(hts) = 0 THEN cands
  ELSE MergeOfficialEntries(MergeOfficialEntry(cands, Head(hts)), Tail(hts))

\* imageAnalysis.materials.some(...) for one candidate
MaterialMatch(c, materials) ==
  \E k \in 1..Len(materials) :
    \/ Includes(ToLowerCase(c.description), ToLowerCase(materials[k]))
    \/ /\ Has(c, "category")
       /\ Includes(ToLowerCase(c.category), ToLowerCase(materials[k]))

\* one candidate after the image loop
ImageConfirmed(c, image) ==
  IF Has(image, "materials") /\ MaterialMatch(c, image.materials)
  THEN [c EXCEPT !.confidence = Min(c.confidence + 5, 99),
                 !.reasoning = @ \o " (confirmed by image analysis)"]
  ELSE c

\* the third loop
EnhanceWithImage(cands, image) ==
  IF IsNull(image) THEN cands
  ELSE [k \in 1..Len(cands) |-> ImageConfirmed(cands[k], image)]

\* FilterFirstOfCode with the filter callback always true
FilterFirstOfCode_KeepAll(cands) == cands

\* candidates.filter((c, index, self) => index === self.findIndex(...))
FilterFirstOfCode(cands) ==
  LET keep == {k \in 1..Len(cands) : FindIndex(cands, cands[k].code) = k}
      RECURSIVE Pick(_)
      Pick(k) == IF k > Len(cands) THEN <<>>
                 ELSE IF k \in keep THEN <<cands[k]>> \o Pick(k + 1)
                 ELSE Pick(k + 1)
  IN Pick(1)

\* UniqueCandidates without the .sort call
UniqueCandidates_Unsorted(cands) == FilterFirstOfCode(cands)

\* uniqueCandidates: filter, then sort
UniqueCandidates(cands) == SortByConfidenceDesc(FilterFirstOfCode(cands))

\* the function as a whole
CombineAndRankCandidates(semantic, hts, image) ==
  UniqueCandidates(
    EnhanceWithImage(MergeOfficialEntries(AddSemanticResults(semantic), hts),
                     image))

(***************************************************************************)
(* The catalog and the keyword matcher (src/data/hsCodes.ts).  An HSCode   *)
(* object is referred to by its position in hsCodeDatabase.                *)
(***************************************************************************)
\* hsCodeDatabase: the 41 entries, in declaration order
hsCodeDatabase == <<
  [code |-> "6912.00.48",
   description |->
     "Ceramic tableware, kitchenware, other household articles and toilet articles",
   category |-> "Ceramics & Porcelain",
   keywords |->
     <<"ceramic", "porcelain", "mug", "cup", "tableware", "kitchenware", "household", "dishes", "bowl", "plate">>,
   tariffRate |-> "8.5%"],
  [code |-> "6911.10.38",
   description |->
     "Porcelain or china tableware and kitchenware",
   category |-> "Ceramics & Porcelain",
   keywords |->
     <<"porcelain", "china", "tableware", "kitchenware", "cup", "mug", "plate", "bowl", "fine", "dinnerware">>,
   tariffRate |-> "8%"],
  [code |-> "6914.90.90",
   description |->
     "Other ceramic articles",
   category |-> "Ceramics & Porcelain",
   keywords |->
     <<"ceramic", "porcelain", "decorative", "ornamental", "figurine", "vase", "pottery">>,
   tariffRate |-> "8.5%"],
  [code |-> "6109.10.00",
   description |->
     "T-shirts, singlets and other vests, knitted or crocheted, of cotton",
   category |-> "Textiles & Clothing",
   keywords |->
     <<"t-shirt", "shirt", "vest", "cotton", "knitted", "clothing", "apparel", "tee", "top">>,
   tariffRate |-> "16.5%"],
  [code |-> "6104.62.20",
   description |->
     "Women's or girls' trousers, bib and brace overalls, breeches and shorts, of cotton",
   category |-> "Textiles & Clothing",
   keywords |->
     <<"trousers", "pants", "women", "girls", "cotton", "shorts", "breeches", "jeans", "leggings">>,
   tariffRate |-> "16.6%"],
  [code |-> "6110.20.20",
   description |->
     "Sweaters, pullovers, sweatshirts, waistcoats and similar articles, knitted or crocheted, of cotton",
   category |-> "Textiles & Clothing",
   keywords |->
     <<"sweater", "pullover", "sweatshirt", "hoodie", "cardigan", "cotton", "knitted", "jumper">>,
   tariffRate |-> "16.5%"],
  [code |-> "6203.42.40",
   description |->
     "Men's or boys' trousers, bib and brace overalls, breeches and shorts, of cotton",
   category |-> "Textiles & Clothing",
   keywords |->
     <<"men", "boys", "trousers", "pants", "cotton", "shorts", "jeans", "chinos", "khakis">>,
   tariffRate |-> "16.6%"],
  [code |-> "4202.12.80",
   description |->
     "Handbags, with or without shoulder strap, including those without handle",
   category |-> "Leather Goods",
   keywords |->
     <<"handbag", "purse", "bag", "shoulder", "strap", "handle", "leather", "tote", "clutch">>,
   tariffRate |-> "17.6%"],
  [code |-> "4202.22.80",
   description |->
     "Handbags of textile materials",
   category |-> "Leather Goods",
   keywords |->
     <<"handbag", "purse", "bag", "textile", "fabric", "canvas", "nylon", "polyester">>,
   tariffRate |-> "17.6%"],
  [code |-> "4203.29.50",
   description |->
     "Gloves, mittens and mitts, of leather or of composition leather",
   category |-> "Leather Goods",
   keywords |->
     <<"gloves", "mittens", "mitts", "leather", "hands", "winter">>,
   tariffRate |-> "12.6%"],
  [code |-> "4202.11.00",
   description |->
     "Trunks, suitcases, vanity cases, executive cases, briefcases, school satchels and similar containers, with outer surface of leather",
   category |-> "Leather Goods",
   keywords |->
     <<"wallet", "billfold", "bifold", "trifold", "leather", "genuine", "executive", "briefcase">>,
   tariffRate |-> "20%"],
  [code |-> "4202.92.45",
   description |->
     "Travel, sports and similar bags with outer surface of textile materials",
   category |-> "Leather Goods",
   keywords |->
     <<"travel", "sports", "bag", "luggage", "duffel", "gym", "backpack", "textile">>,
   tariffRate |-> "17.6%"],
  [code |-> "6404.19.39",
   description |->
     "Other footwear with outer soles of rubber, plastics, leather",
   category |-> "Footwear",
   keywords |->
     <<"shoes", "footwear", "boots", "sandals", "rubber", "leather", "sneakers", "athletic">>,
   tariffRate |-> "8.5%"],
  [code |-> "6403.91.60",
   description |->
     "Other footwear with outer soles of leather",
   category |-> "Footwear",
   keywords |->
     <<"dress", "shoes", "leather", "formal", "oxford", "loafer", "boot", "heel">>,
   tariffRate |-> "8.5%"],
  [code |-> "6404.11.90",
   description |->
     "Sports footwear; tennis shoes, basketball shoes, gym shoes, training shoes and the like",
   category |-> "Footwear",
   keywords |->
     <<"sports", "athletic", "tennis", "basketball", "gym", "training", "running", "sneakers">>,
   tariffRate |-> "20%"],
  [code |-> "7113.19.50",
   description |->
     "Articles of jewelry and parts thereof, of precious metal other than silver",
   category |-> "Jewelry & Precious Items",
   keywords |->
     <<"jewelry", "necklace", "bracelet", "ring", "gold", "precious", "metal", "earrings">>,
   tariffRate |-> "5.5%"],
  [code |-> "7113.11.50",
   description |->
     "Articles of jewelry and parts thereof, of silver, whether or not plated or clad",
   category |-> "Jewelry & Precious Items",
   keywords |->
     <<"jewelry", "silver", "necklace", "bracelet", "ring", "925", "sterling", "earrings">>,
   tariffRate |-> "6.5%"],
  [code |-> "7117.90.90",
   description |->
     "Imitation jewelry, other",
   category |-> "Jewelry & Precious Items",
   keywords |->
     <<"imitation", "costume", "jewelry", "fashion", "accessory", "beads", "fake", "plated">>,
   tariffRate |-> "11%"],
  [code |-> "8517.12.00",
   description |->
     "Telephones for cellular networks or for other wireless networks",
   category |-> "Electronics & Electrical",
   keywords |->
     <<"phone", "smartphone", "mobile", "cellular", "wireless", "iphone", "android">>,
   tariffRate |-> "Free"],
  [code |-> "8471.30.01",
   description |->
     "Portable automatic data processing machines, weighing not more than 10 kg",
   category |-> "Electronics & Electrical",
   keywords |->
     <<"laptop", "notebook", "computer", "portable", "macbook", "chromebook", "tablet">>,
   tariffRate |-> "Free"],
  [code |-> "8543.70.96",
   description |->
     "Other electrical machines and apparatus, having individual functions",
   category |-> "Electronics & Electrical",
   keywords |->
     <<"electronic", "electrical", "device", "machine", "equipment", "gadget">>,
   tariffRate |-> "2.6%"],
  [code |-> "8518.30.20",
   description |->
     "Headphones and earphones, whether or not combined with a microphone",
   category |-> "Electronics & Electrical",
   keywords |->
     <<"headphones", "earphones", "earbuds", "headset", "audio", "wireless", "bluetooth">>,
   tariffRate |-> "Free"],
  [code |-> "9401.61.40",
   description |->
     "Other seats, with wooden frames, upholstered",
   category |-> "Furniture & Home",
   keywords |->
     <<"chair", "seat", "wooden", "upholstered", "furniture", "dining", "office">>,
   tariffRate |-> "Free"],
  [code |-> "9403.60.80",
   description |->
     "Other wooden furniture",
   category |-> "Furniture & Home",
   keywords |->
     <<"wooden", "furniture", "table", "desk", "cabinet", "shelf", "bookcase", "dresser">>,
   tariffRate |-> "Free"],
  [code |-> "9404.90.95",
   description |->
     "Other articles of bedding and similar furnishing",
   category |-> "Furniture & Home",
   keywords |->
     <<"bedding", "pillow", "cushion", "blanket", "comforter", "sheet", "mattress">>,
   tariffRate |-> "9%"],
  [code |-> "3923.30.00",
   description |->
     "Bottles, flasks and similar articles, of plastics",
   category |-> "Plastics & Containers",
   keywords |->
     <<"bottle", "flask", "plastic", "container", "water", "drink", "beverage">>,
   tariffRate |-> "3%"],
  [code |-> "3926.90.99",
   description |->
     "Other articles of plastics and articles of other materials",
   category |-> "Plastics & Polymers",
   keywords |->
     <<"plastic", "polymer", "accessories", "household", "container", "storage">>,
   tariffRate |-> "3.1%"],
  [code |-> "7013.49.20",
   description |->
     "Other glassware of a kind used for table, kitchen, toilet, office, indoor decoration",
   category |-> "Glass & Glassware",
   keywords |->
     <<"glass", "glassware", "table", "kitchen", "decoration", "vase", "bowl", "cup">>,
   tariffRate |-> "28.5%"],
  [code |-> "7018.90.50",
   description |->
     "Glass beads, imitation pearls, imitation precious stones and similar articles",
   category |-> "Glass & Ceramics",
   keywords |->
     <<"glass", "beads", "imitation", "pearls", "decorative", "ornament">>,
   tariffRate |-> "6%"],
  [code |-> "9503.00.00",
   description |->
     "Tricycles, scooters, pedal cars and similar wheeled toys; dolls",
   category |-> "Toys & Games",
   keywords |->
     <<"toy", "game", "children", "play", "doll", "tricycle", "scooter", "kids">>,
   tariffRate |-> "Free"],
  [code |-> "9506.91.00",
   description |->
     "Articles and equipment for general physical exercise, gymnastics, athletics",
   category |-> "Sports & Recreation",
   keywords |->
     <<"exercise", "gym", "fitness", "athletic", "sports", "equipment", "workout">>,
   tariffRate |-> "Free"],
  [code |-> "3304.99.50",
   description |->
     "Other beauty or make-up preparations",
   category |-> "Cosmetics & Beauty",
   keywords |->
     <<"cosmetic", "makeup", "beauty", "skincare", "lotion", "cream", "foundation">>,
   tariffRate |-> "Free"],
  [code |-> "3303.00.30",
   description |->
     "Perfumes and toilet waters",
   category |-> "Cosmetics & Beauty",
   keywords |->
     <<"perfume", "fragrance", "cologne", "scent", "toilet", "water", "spray">>,
   tariffRate |-> "Free"],
  [code |-> "2005.99.85",
   description |->
     "Other vegetables prepared or preserved otherwise than by vinegar or acetic acid",
   category |-> "Food & Beverages",
   keywords |->
     <<"vegetables", "preserved", "canned", "food", "jarred", "pickled">>,
   tariffRate |-> "14.9%"],
  [code |-> "2009.90.80",
   description |->
     "Mixtures of fruit or vegetable juices",
   category |-> "Food & Beverages",
   keywords |->
     <<"juice", "fruit", "vegetable", "beverage", "drink", "mixed", "blend">>,
   tariffRate |-> "Free"],
  [code |-> "7326.90.85",
   description |->
     "Other articles of iron or steel",
   category |-> "Metals & Hardware",
   keywords |->
     <<"iron", "steel", "metal", "hardware", "tool", "equipment", "bracket", "fastener">>,
   tariffRate |-> "2.9%"],
  [code |-> "7323.99.90",
   description |->
     "Other table, kitchen or other household articles of iron or steel",
   category |-> "Metals & Hardware",
   keywords |->
     <<"kitchen", "household", "iron", "steel", "utensil", "cookware", "pot", "pan">>,
   tariffRate |-> "3.4%"],
  [code |-> "4823.90.86",
   description |->
     "Other paper and paperboard, cut to size or shape; other articles of paper",
   category |-> "Paper & Stationery",
   keywords |->
     <<"paper", "cardboard", "box", "packaging", "stationery", "craft", "notebook">>,
   tariffRate |-> "Free"],
  [code |-> "4802.56.60",
   description |->
     "Other paper and paperboard, not containing fibers",
   category |-> "Paper & Stationery",
   keywords |->
     <<"paper", "writing", "printing", "office", "copy", "bond">>,
   tariffRate |-> "Free"],
  [code |-> "9701.10.00",
   description |->
     "Paintings, drawings and pastels, executed entirely by hand",
   category |-> "Art & Collectibles",
   keywords |->
     <<"painting", "art", "drawing", "artwork", "canvas", "handmade", "original">>,
   tariffRate |-> "Free"],
  [code |-> "9705.00.00",
   description |->
     "Collections and collectors' pieces of archaeological, historical or ethnographic interest",
   category |-> "Art & Collectibles",
   keywords |->
     <<"collectible", "antique", "historical", "archaeological", "ethnographic", "vintage">>,
   tariffRate |-> "Free"]
>>

productTypeKeywords ==
  <<"mug", "cup", "bowl", "plate", "wallet", "purse", "handbag", "shoe", "boot",
    "shirt", "pants">>

materialKeywords ==
  <<"ceramic", "porcelain", "leather", "cotton", "plastic", "glass", "wood",
    "metal", "fabric", "textile">>

\* 1. exact product type matches: 50 points each
ProductTypeScore(hsCode, titleLower, descLower) ==
  50 * Cardinality({k \in 1..Len(productTypeKeywords) :
         /\ ArrayIncludes(hsCode.keywords, productTypeKeywords[k])
         /\ \/ Includes(titleLower, productTypeKeywords[k])
            \/ Includes(descLower, productTypeKeywords[k])})

\* 2. material matches: 20 points each, only when materials is not empty
MaterialScore(hsCode, materialsLower) ==
  IF materialsLower = "" THEN 0
  ELSE 20 * Cardinality({k \in 1..Len(hsCode.keywords) :
         /\ ArrayIncludes(materialKeywords, ToLowerCase(hsCode.keywords[k]))
         /\ Includes(materialsLower, ToLowerCase(hsCode.keywords[k]))})

\* 3. category matches: 10 points for each pair of matching words
CategoryScore(hsCode, categoryLower) ==
  LET categoryWords == SplitOnSeparators(categoryLower)
      hsCodeCategoryWords == SplitOnSeparators(ToLowerCase(hsCode.category))
  IN 10 * Cardinality({w \in (1..Len(categoryWords)) \X (1..Len(hsCodeCategoryWords)) :
            LET catWord == categoryWords[w[1]]
                hsCodeWord == hsCodeCategoryWords[w[2]]
            IN /\ Len(catWord) > 3
               /\ \/ catWord = hsCodeWord
                  \/ Len(catWord) > 5 /\ Includes(hsCodeWord, catWord)})

\* 4. title keyword matches: 5 points for each general keyword
TitleKeywordScore(hsCode, titleLower) ==
  5 * Cardinality({k \in 1..Len(hsCode.keywords) :
        /\ ~ArrayIncludes(productTypeKeywords, hsCode.keywords[k])
        /\ ~ArrayIncludes(materialKeywords, hsCode.keywords[k])
        /\ Len(hsCode.keywords[k]) > 3
        /\ Includes(titleLower, ToLowerCase(hsCode.keywords[k]))})

\* candidateMatches: one {hsCode, matchScore} per catalog entry, in catalog order
CandidateMatches(title, description, category, materials) ==
  LET titleLower == ToLowerCase(title)
      descLower == ToLowerCase(description)
      categoryLower == ToLowerCase(category)
      materialsLower == ToLowerCase(materials)
  IN [k \in 1..Len(hsCodeDatabase) |->
        [hsCode |-> k,
         matchScore |->
           ProductTypeScore(hsCodeDatabase[k], titleLower, descLower)
             + MaterialScore(hsCodeDatabase[k], materialsLower)
             + CategoryScore(hsCodeDatabase[k], categoryLower)
             + TitleKeywordScore(hsCodeDatabase[k], titleLower)]]

\* .filter(item => item.matchScore >= 20)
FilterByFloor(matches) ==
  LET RECURSIVE Pick(_)
      Pick(k) == IF k > Len(matches) THEN <<>>
                 ELSE IF matches[k].matchScore >= 20
                      THEN <<matches[k]>> \o Pick(k + 1)
                      ELSE Pick(k + 1)
  IN Pick(1)

\* the matches left in catalog order
SortByMatchScoreDesc_CatalogOrder(matches) == matches

\* .sort((a, b) => b.matchScore - a.matchScore)
SortByMatchScoreDesc(matches) ==
  StableSortDesc(matches, [k \in 1..Len(matches) |-> matches[k].matchScore])

\* validMatches: filter, sort, slice(0, 5), map to the HSCode
ValidMatches(matches) ==
  LET top == Slice(SortByMatchScoreDesc(FilterByFloor(matches)), 5)
  IN [k \in 1..Len(top) |-> top[k].hsCode]

\* findMatchingHSCodes
FindMatchingHSCodes(title, description, category, materials) ==
  ValidMatches(CandidateMatches(title, description, category, materials))

(***************************************************************************)
(* HTSLookupService.enhancedPrediction (src/services).                     *)
(***************************************************************************)
\* JSON values that are numbers, written by their digits; every other value
\* of the model that stands for a code is a string
NumberValues == {"39269099"}

IsString(v) == v \notin NumberValues

\* what the hts-lookup search may answer to the client: the entries of the
\* edge function, and an entry whose code was serialised as a number
SearchEntries ==
  OfficialEntries \cup {[OfficialEntry("3926.90.99") EXCEPT !.code = "39269099"]}

\* data.data of the search answer: an array of entries, or not an array
SearchAnswers ==
  {[isArray |-> TRUE, data |-> m] : m \in SeqsUpTo(SearchEntries, MaxOfficial)}
    \cup {[isArray |-> FALSE]}

\* the codes the validate action reports valid
ValidCodeSets == {{}, {"6912.00.48"}, Codes}

\* validateHTSCode: {valid, entry} or {valid: false}
ValidateHTSCode(hsCode, validCodes) ==
  IF hsCode \in validCodes
  THEN [valid |-> TRUE, entry |-> OfficialEntry(hsCode)]
  ELSE [valid |-> FALSE]

\* one element of enhancedPredictions
EnhancedLocalPrediction(pred, validCodes) ==
  LET validation == ValidateHTSCode(pred.hsCode, validCodes)
      flagged == Assign(pred, "isOfficiallyValidated", validation.valid)
  IN IF Has(validation, "entry")
     THEN Assign(flagged, "officialEntry", validation.entry)
     ELSE flagged

\* one official match as it is appended to combinedPredictions
OfficialMatchPrediction(match) ==
  [hsCode |-> match.code,
   description |-> match.description,
   confidence |-> 95,
   category |-> match.category,
   isOfficialMatch |-> TRUE,
   officialEntry |-> match,
   tariffInfo |-> match.tariffInfo]

\* combinedPredictions.filter((pred, index, self) =>
\*   index === self.findIndex(p => p.hsCode === pred.hsCode))
FilterFirstOfHsCode(preds) ==
  LET RECURSIVE Pick(_)
      Pick(k) == IF k > Len(preds) THEN <<>>
                 ELSE IF \A j \in 1..(k - 1) : preds[j].hsCode # preds[k].hsCode
                      THEN <<preds[k]>> \o Pick(k + 1)
                      ELSE Pick(k + 1)
  IN Pick(1)

\* pred.confidence || 0
PredConfidenceOrZero(pred) == IF Has(pred, "confidence") THEN pred.confidence ELSE 0

\* EnhancedPrediction whose catch block returns no prediction
EnhancedPrediction_CatchEmpty(localPreds, answer, validCodes) ==
  IF ~answer.isArray THEN <<>>
  ELSE LET enhancedPredictions ==
             [k \in 1..Len(localPreds) |->
                EnhancedLocalPrediction(localPreds[k], validCodes)]
           officialPredictions ==
             [k \in 1..Len(answer.data) |-> OfficialMatchPrediction(answer.data[k])]
           combinedPredictions == enhancedPredictions \o officialPredictions
           uniquePredictions == FilterFirstOfHsCode(combinedPredictions)
       IN Slice(StableSortDesc(uniquePredictions,
                               [k \in 1..Len(uniquePredictions) |->
                                  PredConfidenceOrZero(uniquePredictions[k])]),
                10)

\* the predictions enhancedPrediction returns; when the search answer is not
\* an array officialMatches.map throws and the catch returns localPredictions
EnhancedPrediction(localPreds, answer, validCodes) ==
  IF ~answer.isArray THEN localPreds
  ELSE LET enhancedPredictions ==
             [k \in 1..Len(localPreds) |->
                EnhancedLocalPrediction(localPreds[k], validCodes)]
           officialPredictions ==
             [k \in 1..Len(answer.data) |-> OfficialMatchPrediction(answer.data[k])]
           combinedPredictions == enhancedPredictions \o officialPredictions
           uniquePredictions == FilterFirstOfHsCode(combinedPredictions)
       IN Slice(StableSortDesc(uniquePredictions,
                               [k \in 1..Len(uniquePredictions) |->
                                  PredConfidenceOrZero(uniquePredictions[k])]),
                10)

(***************************************************************************)
(* analyzeProduct (src/utils/mockAnalysis.ts).                             *)
(***************************************************************************)
Sentence == "Hand made in small batches and shipped to you with great care.  "

Titles ==
  {"Ceramic Coffee Mug", "cotton t-shirt", "Phone", "Gift set",
   "Cup bowl plate wallet shirt pants"}

Descriptions ==
  {"", "100% cotton casual wear",
   Sentence \o Sentence \o Sentence,
   Sentence \o Sentence \o Sentence \o Sentence \o Sentence}

Categories == {"", "Ceramics & Porcelain", "Clothing"}

MaterialsTexts == {"", "ceramic", "Cotton"}

Images == {Null, [name |-> "photo.jpg"]}

\* the ProductData objects analyzeProduct is called with
Products ==
  [title : Titles, description : Descriptions, category : Categories,
   materials : MaterialsTexts, image : Images]

\* `Chapter ${code.substring(0, 2)}`
ChapterOf(code) == "Chapter " \o SubSeq(code, 1, Min(2, Len(code)))

\* a sourceDocument; the chapter is undefined when the code is empty
SourceDocument(name, type, code) ==
  IF code = "" THEN [name |-> name, type |-> type]
  ELSE [name |-> name, type |-> type, chapter |-> ChapterOf(code)]

\* matchingHSCodes.map(hsCode => ({ hsCode: hsCode.code, ...hsCode }))
LocalPredictions(matching) ==
  [k \in 1..Len(matching) |->
     LET hsCode == hsCodeDatabase[matching[k]]
     IN [hsCode |-> hsCode.code,
         code |-> hsCode.code,
         description |-> hsCode.description,
         category |-> hsCode.category,
         keywords |-> hsCode.keywords,
         tariffRate |-> hsCode.tariffRate]]

\* pred.hsCode.substring is not a function: hsCode is truthy and no string
MappingThrows(preds) == \E k \in 1..Len(preds) : ~IsString(preds[k].hsCode)

\* lines 94-121: one enhanced prediction as an HSCodePrediction
EnhancedToPrediction(pred) ==
  LET official == Truthy(pred, "isOfficialMatch") \/ Truthy(pred, "isOfficiallyValidated")
  IN [code |-> pred.hsCode,
      description |-> pred.description,
      confidence |-> IF PredConfidenceOrZero(pred) # 0 THEN pred.confidence ELSE 85,
      category |->
        IF Has(pred, "category") /\ pred.category # "" THEN pred.category
        ELSE IF Has(pred, "officialEntry") /\ pred.officialEntry.category # ""
             THEN pred.officialEntry.category
             ELSE "Official Classification",
      tariffRate |->
        IF Has(pred, "officialEntry") THEN pred.officialEntry.tariffInfo.generalRate
        ELSE IF Has(pred, "tariffInfo") THEN pred.tariffInfo.generalRate
        ELSE "Contact Customs",
      isOfficiallyValidated |-> official,
      sourceDocument |->
        IF official
        THEN SourceDocument("USITC Harmonized Tariff Schedule", "USITC_DATABASE",
                            pred.hsCode)
        ELSE SourceDocument("Local HTS Database", "LOCAL_DATABASE", pred.hsCode)]

\* lines 135-151: one semantic match as an HSCodePrediction; a match without
\* confidence gives NaN, a prediction without a confidence
AIPrediction(match, matching) ==
  LET found == {k \in 1..Len(matching) : hsCodeDatabase[matching[k]].code = match.code}
      base ==
        [code |-> match.code,
         description |->
           IF found # {} THEN hsCodeDatabase[matching[CHOOSE k \in found : TRUE]].description
           ELSE match.reasoning,
         category |->
           IF found # {} THEN hsCodeDatabase[matching[CHOOSE k \in found : TRUE]].category
           ELSE "AI Classified",
         tariffRate |->
           IF found # {} THEN hsCodeDatabase[matching[CHOOSE k \in found : TRUE]].tariffRate
           ELSE "Contact Customs",
         sourceDocument |->
           SourceDocument("AI Semantic Analysis (Gemini) + Local Database",
                          "AI_SEMANTIC", match.code)]
  IN IF Has(match, "confidence")
     THEN Assign(base, "confidence", Min(95, match.confidence + 5))
     ELSE base

\* lines 155-157: the keyword matches the AI did not name, at most 2
RemainingCodes(matches, matching) ==
  LET RECURSIVE Pick(_)
      Pick(k) ==
        IF k > Len(matching) THEN <<>>
        ELSE IF \E j \in 1..Len(matches) :
                  matches[j].code = hsCodeDatabase[matching[k]].code
             THEN Pick(k + 1)
             ELSE <<matching[k]>> \o Pick(k + 1)
  IN Slice(Pick(1), 2)

\* lines 159-174: the prediction pushed for remainingCodes[index], 0-based
RemainingPrediction(hsCode, index) ==
  [code |-> hsCode.code,
   description |-> hsCode.description,
   confidence |-> Max(40, 75 - (index * 15)),
   category |-> hsCode.category,
   tariffRate |-> hsCode.tariffRate,
   sourceDocument |-> SourceDocument("Local HTS Database", "LOCAL_DATABASE", hsCode.code)]

\* lines 133-174: the AI-enhanced results
AIEnhancedPredictions(matches, matching) ==
  LET remaining == RemainingCodes(matches, matching)
  IN [k \in 1..Len(matches) |-> AIPrediction(matches[k], matching)]
       \o [k \in 1..Len(remaining) |->
             RemainingPrediction(hsCodeDatabase[remaining[k]], k - 1)]

\* the number of keywords k for which some word includes k or k includes it
WordMatches(keywords, words) ==
  Cardinality({k \in 1..Len(keywords) :
    \E w \in 1..Len(words) :
      \/ Includes(words[w], ToLowerCase(keywords[k]))
      \/ Includes(ToLowerCase(keywords[k]), words[w])})

\* lines 178-206: baseConfidence of matchingHSCodes[index], 0-based
BaseConfidence(hsCode, index, product) ==
  LET titleWords == SplitOnSpace(ToLowerCase(product.title))
      materialWords == SplitOnSpace(ToLowerCase(product.materials))
      materialMatches == WordMatches(hsCode.keywords, materialWords)
      titleMatches == WordMatches(hsCode.keywords, titleWords)
  IN (90 - (index * 8))
       + materialMatches * 5
       + titleMatches * 3
       + (IF /\ product.category # ""
             /\ Includes(ToLowerCase(hsCode.category),
                         SplitOnSpace(ToLowerCase(product.category))[1])
          THEN 5 ELSE 0)
       + (IF Len(product.description) > 150 THEN 3 ELSE 0)
       + (IF Len(product.description) > 300 THEN 2 ELSE 0)
       + (IF ~IsNull(product.image) THEN 8 ELSE 0)

\* the lower clamp alone
ClampConfidence_NoCap(baseConfidence) == Max(35, baseConfidence)

\* line 209: Math.min(95, Math.max(35, baseConfidence))
ClampConfidence(baseConfidence) == Min(95, Max(35, baseConfidence))

\* lines 177-225: the keyword-confidence predictions
KeywordPredictions(matching, product) ==
  [k \in 1..Len(matching) |->
     LET hsCode == hsCodeDatabase[matching[k]]
     IN [code |-> hsCode.code,
         description |-> hsCode.description,
         confidence |-> ClampConfidence(BaseConfidence(hsCode, k - 1, product)),
         category |-> hsCode.category,
         tariffRate |-> hsCode.tariffRate,
         sourceDocument |->
           SourceDocument("Enhanced Local HTS Database", "LOCAL_DATABASE", hsCode.code)]]

\* one fallback HSCodePrediction
FallbackPrediction(code, description, confidence, category, tariffRate, name) ==
  [code |-> code, description |-> description, confidence |-> confidence,
   category |-> category, tariffRate |-> tariffRate,
   sourceDocument |-> [name |-> name, type |-> "LOCAL_DATABASE",
                       chapter |-> ChapterOf(code)]]

\* line 248-251: productData.title?.toLowerCase() || ''
LowerOrEmpty(product, f) == IF Has(product, f) THEN ToLowerCase(product[f]) ELSE ""

\* lines 254-256: the ceramics rule
CeramicsRule(product) ==
  LET title == LowerOrEmpty(product, "title")
      description == LowerOrEmpty(product, "description")
      materials == LowerOrEmpty(product, "materials")
  IN \/ Includes(materials, "porcelain") \/ Includes(materials, "ceramic")
     \/ Includes(title, "mug") \/ Includes(title, "cup") \/ Includes(title, "bowl")
     \/ Includes(description, "ceramic") \/ Includes(description, "porcelain")

\* lines 276-278: the textile rule
TextileRule(product) ==
  LET title == LowerOrEmpty(product, "title")
      materials == LowerOrEmpty(product, "materials")
      category == LowerOrEmpty(product, "category")
  IN \/ Includes(materials, "cotton") \/ Includes(materials, "fabric")
     \/ Includes(materials, "textile")
     \/ Includes(category, "clothing") \/ Includes(category, "apparel")
     \/ Includes(title, "shirt") \/ Includes(title, "pants")
     \/ Includes(title, "dress")

\* lines 298-300: the electronics rule
ElectronicsRule(product) ==
  LET title == LowerOrEmpty(product, "title")
      description == LowerOrEmpty(product, "description")
      category == LowerOrEmpty(product, "category")
  IN \/ Includes(category, "electronic") \/ Includes(category, "tech")
     \/ Includes(title, "phone") \/ Includes(title, "computer")
     \/ Includes(title, "device")
     \/ Includes(description, "electronic") \/ Includes(description, "digital")

\* lines 320-321: the home and garden rule
HomeRule(product) ==
  LET title == LowerOrEmpty(product, "title")
      description == LowerOrEmpty(product, "description")
      category == LowerOrEmpty(product, "category")
  IN \/ Includes(category, "home") \/ Includes(category, "garden")
     \/ Includes(category, "furniture")
     \/ Includes(title, "furniture") \/ Includes(title, "decor")
     \/ Includes(description, "household")

\* lines 257-273
CeramicsFallback ==
  <<FallbackPrediction("6912.00.48",
      "Ceramic tableware, kitchenware, other household articles", 80,
      "Ceramics & Porcelain", "8.5%", "Smart Fallback Classification")>>

\* lines 279-295
TextileFallback ==
  <<FallbackPrediction("6109.10.00",
      "T-shirts, singlets and other vests, knitted or crocheted, of cotton", 70,
      "Textiles & Clothing", "16.5%", "Smart Fallback Classification")>>

\* lines 301-317
ElectronicsFallback ==
  <<FallbackPrediction("8543.70.96",
      "Other electrical machines and apparatus, having individual functions", 65,
      "Electronics & Electrical", "2.6%", "Smart Fallback Classification")>>

\* lines 322-338
HomeFallback ==
  <<FallbackPrediction("9403.60.80", "Other wooden furniture", 60,
      "Furniture & Home", "Free", "Smart Fallback Classification")>>

\* lines 341-356
GenericFallback ==
  <<FallbackPrediction("3926.90.99",
      "Other articles of plastics and articles of other materials", 25,
      "General Merchandise", "3.1%", "Generic Fallback Classification")>>

\* no fallback prediction at all
GetFallbackPredictions_None(product) == <<>>

\* the textile rule tried before the ceramics rule
GetFallbackPredictions_TextileFirst(product) ==
  IF TextileRule(product) THEN TextileFallback
  ELSE IF CeramicsRule(product) THEN CeramicsFallback
  ELSE IF ElectronicsRule(product) THEN ElectronicsFallback
  ELSE IF HomeRule(product) THEN HomeFallback
  ELSE GenericFallback

\* getFallbackPredictions
GetFallbackPredictions(product) ==
  IF CeramicsRule(product) THEN CeramicsFallback
  ELSE IF TextileRule(product) THEN TextileFallback
  ELSE IF ElectronicsRule(product) THEN ElectronicsFallback
  ELSE IF HomeRule(product) THEN HomeFallback
  ELSE GenericFallback

\* getFallbackPredictions of the copy of the module in src/unnamed/part_009:
\* two fixed predictions, whatever the product is
GetFallbackPredictionsPart009(product) ==
  <<[code |-> "3926.90.99",
     description |-> "Other articles of plastics and articles of other materials",
     confidence |-> 60,
     category |-> "General Merchandise",
     tariffRate |-> "3.1%"],
    [code |-> "4823.90.86",
     description |-> "Other paper and paperboard, cut to size or shape",
     confidence |-> 45,
     category |-> "Paper & Stationery",
     tariffRate |-> "Free"]>>

\* the ProductData objects getFallbackPredictions is called with
FallbackProducts ==
  [title : {"Gift set", "Coffee Mug", "Summer dress", "Phone", "Home decor"},
   description : {"", "Porcelain finish", "digital household item"},
   category : {"", "Clothing", "Electronics", "Home & Garden"},
   materials : {"", "ceramic", "Cotton fabric"},
   image : {Null}]

\* the two modules of the repository that define getFallbackPredictions
FallbackModules == {"utils/mockAnalysis.ts", "unnamed/part_009"}

\* the matches the semantic-analysis function may rank for analyzeProduct: in
\* the catalog or not, above or below the cap, one without a confidence
AnalysisMatches ==
  [code : {"6912.00.48", "3926.90.99"}, confidence : {60, 97},
   reasoning : {"semantic reasoning"}]
    \cup {[code |-> "6912.00.48", reasoning |-> "semantic reasoning"]}

\* what performSemanticAnalysis resolves to: null (no session, an error) or
\* data.semanticMatches
SemanticAnalysisOutcomes ==
  {Null, [answer |-> "no ranking"]}
    \cup {[matches |-> m] : m \in SeqsUpTo(AnalysisMatches, MaxSemantic)}

\* semanticResults && semanticResults.matches && semanticResults.matches.length > 0
HasSemanticMatches(semantic) ==
  /\ ~IsNull(semantic)
  /\ Has(semantic, "matches")
  /\ Len(semantic.matches) > 0

(***************************************************************************)
(* calculateOverallConfidence and determineHumanReviewNeed.  A confidence  *)
(* is a JavaScript number: it is held as a count of 1/unit points, so that *)
(* Math.round has fractions to round (unit = 1: whole points only).        *)
(***************************************************************************)
\* Math.round(n / d), d > 0: the nearest integer, a half rounded up
MathRound(n, d) == ((2 * n) + d) \div (2 * d)

\* candidates.some(c => c.isOfficialMatch)
HasOfficialMatch(cands) == \E k \in 1..Len(cands) : Truthy(cands[k], "isOfficialMatch")

\* the +5 boost capped at 100 instead of 99
CalculateOverallConfidence_Cap100(cands, unit) ==
  IF Len(cands) = 0 THEN 0
  ELSE LET topCandidate == cands[1]
           confidenceSpread ==
             IF Len(cands) > 1 THEN topCandidate.confidence - cands[2].confidence
             ELSE topCandidate.confidence
           boosted ==
             IF HasOfficialMatch(cands)
             THEN Min(topCandidate.confidence + (5 * unit), 100 * unit)
             ELSE topCandidate.confidence
           reduced ==
             IF confidenceSpread < 10 * unit THEN Max(boosted - (15 * unit), 0)
             ELSE boosted
       IN MathRound(reduced, unit)

\* calculateOverallConfidence
CalculateOverallConfidence(cands, unit) ==
  IF Len(cands) = 0 THEN 0
  ELSE LET topCandidate == cands[1]
           confidenceSpread ==
             IF Len(cands) > 1 THEN topCandidate.confidence - cands[2].confidence
             ELSE topCandidate.confidence
           boosted ==
             IF HasOfficialMatch(cands)
             THEN Min(topCandidate.confidence + (5 * unit), 99 * unit)
             ELSE topCandidate.confidence
           reduced ==
             IF confidenceSpread < 10 * unit THEN Max(boosted - (15 * unit), 0)
             ELSE boosted
       IN MathRound(reduced, unit)

reviewKeywords ==
  <<"battery", "lithium", "food", "cosmetic", "pharmaceutical", "medical",
    "chemical", "hazardous", "explosive", "flammable", "dangerous",
    "supplement", "medicine", "drug", "organic", "agriculture">>

\* ${value} in a template literal: an undefined property reads "undefined"
TemplateText(obj, f) == IF Has(obj, f) THEN obj[f] ELSE "undefined"

\* `${request.productTitle} ${request.productDescription}`.toLowerCase()
ProductText(req) ==
  ToLowerCase(TemplateText(req, "productTitle") \o " "
                \o TemplateText(req, "productDescription"))

\* reviewKeywords.some(keyword => productText.includes(keyword))
HasReviewKeyword(req) ==
  \E k \in 1..Len(reviewKeywords) : Includes(ProductText(req), reviewKeywords[k])

\* Array.prototype.join
RECURSIVE Join(_, _)
Join(arr, sep) ==
  IF Len(arr) = 0 THEN ""
  ELSE IF Len(arr) = 1 THEN arr[1]
  ELSE arr[1] \o sep \o Join(Tail(arr), sep)

\* the rules tried in order until the first one that applies
ReviewReasons_ShortCircuit(cands, confidence, req, unit) ==
  IF confidence < 70 THEN <<"Low confidence prediction">>
  ELSE IF /\ Len(cands) > 1
          /\ cands[1].confidence - cands[2].confidence < 15 * unit
       THEN <<"Multiple similar candidates">>
  ELSE IF HasReviewKeyword(req)
       THEN <<"Product requires special customs consideration">>
  ELSE IF Len(cands) = 0 THEN <<"No suitable HTS codes found">>
  ELSE <<>>

\* lines 395-424: the reasons pushed, in the order of the pushes
ReviewReasons(cands, confidence, req, unit) ==
  (IF confidence < 70 THEN <<"Low confidence prediction">> ELSE <<>>)
    \o (IF /\ Len(cands) > 1
           /\ cands[1].confidence - cands[2].confidence < 15 * unit
        THEN <<"Multiple similar candidates">> ELSE <<>>)
    \o (IF HasReviewKeyword(req)
        THEN <<"Product requires special customs consideration">> ELSE <<>>)
    \o (IF Len(cands) = 0 THEN <<"No suitable HTS codes found">> ELSE <<>>)

\* determineHumanReviewNeed
DetermineHumanReviewNeed(cands, confidence, req, unit) ==
  LET reasons == ReviewReasons(cands, confidence, req, unit)
  IN IF Len(reasons) > 0
     THEN [needs_human_review |-> TRUE, review_reason |-> Join(reasons, "; ")]
     ELSE [needs_human_review |-> FALSE]

\* the resolution of the confidences handed to the policy functions on their
\* own: half points
PolicyUnit == 2

\* candidates as the combiner leaves them, confidences in 1/PolicyUnit points
PolicyCandidates ==
  [code : {"6912.00.48"}, confidence : {0, 19, 150, 160, 170, 189, 200},
   isOfficialMatch : {TRUE}]
    \cup [code : {"6912.00.48"}, confidence : {0, 19, 150, 160, 170, 189, 200}]

\* candidate lists sorted by descending confidence
PolicyCandidateLists ==
  {l \in SeqsUpTo(PolicyCandidates, MaxPolicy) :
     \A k \in 1..(Len(l) - 1) : l[k].confidence >= l[k + 1].confidence}

\* overall confidences handed to determineHumanReviewNeed
PolicyConfidences == {0, 65, 69, 70, 95}

\* requests handed to determineHumanReviewNeed
PolicyRequests ==
  [productTitle : {"Ceramic mug", "Lithium BATTERY pack"},
   productDescription : {"", "Fresh seafood snack"}]
    \cup [productTitle : {"Ceramic mug", "Lithium BATTERY pack"}]

(***************************************************************************)
(* The serve handler of the enhanced-prediction edge function and its      *)
(* three collaborator calls.  The clock (processing_time) is left out.     *)
(***************************************************************************)
\* a title of 512 characters
LongTitle ==
  Sentence \o Sentence \o Sentence \o Sentence \o Sentence \o Sentence
    \o Sentence \o Sentence

\* the JSON bodies of the requests: productTitle missing, empty, a number, an
\* ordinary string, a string with a watch-list word, a string over 500
\* characters; productDescription missing, empty or not; with or without image
RequestBodies ==
  LET titles == {"", "39269099", "Ceramic mug", "Lithium battery pack", LongTitle}
      descriptions == {"", "Hand painted stoneware"}
      urls == {"https://img.example/p.jpg"}
  IN [productTitle : titles, productDescription : descriptions, imageUrl : urls]
       \cup [productTitle : titles, productDescription : descriptions]
       \cup [productTitle : titles]
       \cup [productDescription : descriptions]

\* the requests: the preflight, requests that fail the authorization, a body
\* that is not JSON, and authorized requests with every body
ServeRequests ==
  {[method |-> "OPTIONS"],
   [method |-> "POST", json |-> [productTitle |-> "Ceramic mug"]],
   [method |-> "POST", authorization |-> "Basic dXNlcg==",
    json |-> [productTitle |-> "Ceramic mug"]],
   [method |-> "POST", authorization |-> "Bearer expired-token",
    json |-> [productTitle |-> "Ceramic mug"]],
   [method |-> "POST", authorization |-> "Bearer good-token"]}
    \cup {[method |-> "POST", authorization |-> "Bearer good-token", json |-> b] :
            b \in RequestBodies}

\* authHeader.startsWith('Bearer ')
IsBearer(req) ==
  /\ Has(req, "authorization")
  /\ Len(req.authorization) >= 7
  /\ SubSeq(req.authorization, 1, 7) = "Bearer "

\* supabase.auth.getUser(authHeader.split(' ')[1]) answers a user
TokenHasUser(req) == SplitOnSpace(req.authorization)[2] = "good-token"

\* !requestData.productTitle || typeof requestData.productTitle !== 'string'
TitleMissing(data) ==
  IF Has(data, "productTitle")
  THEN data.productTitle = "" \/ ~IsString(data.productTitle)
  ELSE TRUE

\* the longest list a collaborator answers to the handler
MaxServe == 1

\* the matches the semantic-analysis function may answer to the handler
ServeSemanticMatches ==
  {[code |-> "6912.00.48", confidence |-> 60, reasoning |-> "ranked by Gemini"],
   [code |-> "3926.90.99", confidence |-> 97, description |-> "Plastic mug",
    reasoning |-> "ranked by Gemini"]}

\* the entries the hts-lookup function may answer to the handler
ServeOfficialEntries == {OfficialEntry("6912.00.48"), OfficialEntry("6109.10.00")}

\* how the fetch of hts-lookup may go: an answer whose data is a list, is
\* missing, or is an object that is no list; a status that is not ok; a throw
HtsOutcomes ==
  {[kind |-> "ok", data |-> [isArray |-> TRUE, data |-> m]] :
     m \in SeqsUpTo(ServeOfficialEntries, MaxServe)}
    \cup {[kind |-> "ok"], [kind |-> "ok", data |-> [isArray |-> FALSE]],
          [kind |-> "notOk"], [kind |-> "throws"]}

\* a ranking of five codes, none of them among ServeOfficialEntries
ServeLongMatches ==
  <<[code |-> "3926.90.99", confidence |-> 95, reasoning |-> "ranked by Gemini"],
    [code |-> "3924.10.40", confidence |-> 95, reasoning |-> "ranked by Gemini"],
    [code |-> "7013.37.05", confidence |-> 94, reasoning |-> "ranked by Gemini"],
    [code |-> "7323.93.00", confidence |-> 94, reasoning |-> "ranked by Gemini"],
    [code |-> "4419.90.91", confidence |-> 93, reasoning |-> "ranked by Gemini"]>>

\* how the fetch of semantic-analysis may go
SemanticOutcomes ==
  {[kind |-> "ok", semanticMatches |-> [matches |-> m]] :
     m \in SeqsUpTo(ServeSemanticMatches, MaxServe)}
    \cup {[kind |-> "ok", semanticMatches |-> [matches |-> ServeLongMatches]],
          [kind |-> "ok"], [kind |-> "ok", semanticMatches |-> [answer |-> "no ranking"]],
          [kind |-> "notOk"], [kind |-> "throws"]}

\* how the image analysis may go: the text Gemini answers (no JSON in it, a
\* brace pair that does not parse, JSON), an answer without candidates, a
\* status that is not ok, a throw of fetch or of getImageAsBase64
ImageOutcomes ==
  {[kind |-> "ok", text |-> "I cannot tell."],
   [kind |-> "ok", text |-> "{materials: Ceramic}"],
   [kind |-> "ok", text |-> "Here it is: {\"materials\":[\"Ceramic\",\"plastic\"]} Done."],
   [kind |-> "ok"], [kind |-> "notOk"], [kind |-> "throws"]}

\* on a failure the error object is returned in place of []
GetHTSSearchResults_ReturnsError(outcome) ==
  IF outcome.kind = "ok" /\ Has(outcome, "data") THEN outcome.data
  ELSE IF outcome.kind = "ok" THEN [isArray |-> TRUE, data |-> <<>>]
  ELSE [isArray |-> FALSE]

\* getHTSSearchResults: htsData.data || [], and [] on a failure
GetHTSSearchResults(outcome) ==
  IF outcome.kind = "ok" /\ Has(outcome, "data") THEN outcome.data
  ELSE [isArray |-> TRUE, data |-> <<>>]

\* the body without the search results
SemanticRequestBody_WithoutSearch(data, hts) ==
  LET body == [productTitle |-> data.productTitle,
               availableHSCodes |-> [isArray |-> TRUE, data |-> <<>>]]
  IN IF Has(data, "productDescription")
     THEN Assign(body, "productDescription", data.productDescription)
     ELSE body

\* lines 201-205: the body posted to semantic-analysis; JSON.stringify leaves
\* out a property that is undefined
SemanticRequestBody(data, hts) ==
  LET body == [productTitle |-> data.productTitle, availableHSCodes |-> hts]
  IN IF Has(data, "productDescription")
     THEN Assign(body, "productDescription", data.productDescription)
     ELSE body

\* getSemanticAnalysis: semanticData.semanticMatches || { matches: [] }, and
\* { matches: [] } on a failure
GetSemanticAnalysis(outcome) ==
  IF outcome.kind = "ok" /\ Has(outcome, "semanticMatches")
  THEN outcome.semanticMatches
  ELSE [matches |-> <<>>]

\* analysisText.match(/\{[\s\S]*\}/): from the first { to the last } after it
JsonMatch(text) ==
  LET opens == {k \in 1..Len(text) : SubSeq(text, k, k) = "{"}
      first == CHOOSE k \in opens : \A j \in opens : k <= j
      closes == {k \in 1..Len(text) : SubSeq(text, k, k) = "}" /\ k > first}
      last == CHOOSE k \in closes : \A j \in closes : j <= k
  IN IF opens = {} \/ closes = {} THEN [found |-> FALSE]
     ELSE [found |-> TRUE, text |-> SubSeq(text, first, last)]

\* JSON.parse on the texts of the model
JsonParse(text) ==
  IF text = "{\"materials\":[\"Ceramic\",\"plastic\"]}"
  THEN [parsed |-> TRUE, value |-> [materials |-> <<"Ceramic", "plastic">>]]
  ELSE [parsed |-> FALSE]

\* analyzeProductImage
AnalyzeProductImage(outcome) ==
  IF outcome.kind # "ok" \/ ~Has(outcome, "text") THEN Null
  ELSE LET jsonMatch == JsonMatch(outcome.text)
       IN IF ~jsonMatch.found THEN Null
          ELSE IF JsonParse(jsonMatch.text).parsed
               THEN JsonParse(jsonMatch.text).value
               ELSE [classification_hints |-> <<outcome.text>>]

\* lines 99-102: the image analysis of the request
ImageAnalysisOf(data, outcome) ==
  IF Has(data, "imageUrl") /\ data.imageUrl # "" THEN AnalyzeProductImage(outcome)
  ELSE Null

\* lines 104-113 and 136-143: the result of the pipeline
PredictionResult(data, semantic, hts, image, id) ==
  LET cands == CombineAndRankCandidates(semantic, hts, image)
      confidence_score == CalculateOverallConfidence(cands, 1)
      decision == DetermineHumanReviewNeed(cands, confidence_score, data, 1)
      result == [candidates |-> Slice(cands, 5),
                 confidence_score |-> confidence_score,
                 needs_human_review |-> decision.needs_human_review,
                 prediction_id |-> id]
  IN IF Has(decision, "review_reason")
     THEN Assign(result, "review_reason", decision.review_reason)
     ELSE result

\* lines 92-160: the response to an authorized request with a valid title
PredictionResponse(data, htsOut, semanticOut, imageOut, id) ==
  LET htsResults == GetHTSSearchResults(htsOut)
  IN IF ~htsResults.isArray
     THEN [status |-> 500, body |-> [error |-> "htsResults is not iterable"]]
     ELSE [status |-> 200,
           body |-> PredictionResult(data, GetSemanticAnalysis(semanticOut),
                                     htsResults.data,
                                     ImageAnalysisOf(data, imageOut), id)]

(***************************************************************************)
(* State.                                                                  *)
(***************************************************************************)
VARIABLES
  semanticResults,   \* argument of combineAndRankCandidates
  htsResults,        \* argument of combineAndRankCandidates
  imageAnalysis,     \* argument of combineAndRankCandidates
  candidates,        \* the local array being accumulated
  htsIndex,          \* position of the second loop in htsResults
  uniqueCandidates,  \* the returned array
  pc,                \* position in combineAndRankCandidates
  productData,       \* argument of analyzeProduct
  candidateMatches,  \* findMatchingHSCodes: the scored catalog
  matchingHSCodes,   \* analyzeProduct: the keyword matches (catalog positions)
  enhancedResult,    \* analyzeProduct: enhancedResult.predictions
  predictions,       \* analyzeProduct: the local array of predictions
  branch,            \* analyzeProduct: the statement that assigned predictions
  result,            \* analyzeProduct: the returned predictions
  pcA,               \* position in analyzeProduct
  localPredictions,  \* argument of enhancedPrediction
  searchAnswer,      \* enhancedPrediction: what searchByDescription got
  validCodes,        \* enhancedPrediction: the codes validateHTSCode confirms
  returnedPredictions, \* enhancedPrediction: the returned predictions
  pcE,               \* position in enhancedPrediction
  fbModule,          \* the module whose getFallbackPredictions is called
  fbProduct,         \* argument of getFallbackPredictions
  fbPredictions,     \* getFallbackPredictions: the returned array
  pcF,               \* position in getFallbackPredictions
  polCandidates,     \* argument of calculateOverallConfidence / determineHumanReviewNeed
  polConfidence,     \* argument of determineHumanReviewNeed
  polRequest,        \* argument of determineHumanReviewNeed
  overallConfidence, \* calculateOverallConfidence: the returned number
  review,            \* determineHumanReviewNeed: the returned object
  pcP,               \* position in the two policy functions
  request,           \* serve handler: the HTTP request
  htsOutcome,        \* serve handler: how the hts-lookup call went
  semanticOutcome,   \* serve handler: how the semantic-analysis call went
  imageOutcome,      \* serve handler: how the image analysis went
  semanticRequest,   \* serve handler: the body posted to semantic-analysis
  storeOutcome,      \* serve handler: how the insert into hts_predictions went
  response,          \* serve handler: the HTTP response
  hts_predictions,   \* the rows of the table hts_predictions
  pcS                \* position in the serve handler

combineVars == <<semanticResults, htsResults, imageAnalysis, candidates, htsIndex,
                 uniqueCandidates, pc>>

analyzeVars == <<productData, candidateMatches, matchingHSCodes, enhancedResult,
                 predictions, branch, result, pcA>>

enhancedVars == <<localPredictions, searchAnswer, validCodes, returnedPredictions,
                  pcE>>

fallbackVars == <<fbModule, fbProduct, fbPredictions, pcF>>

policyVars == <<polCandidates, polConfidence, polRequest, overallConfidence, review,
                pcP>>

serveVars == <<request, htsOutcome, semanticOutcome, imageOutcome, semanticRequest,
               storeOutcome, response, hts_predictions, pcS>>

vars == <<combineVars, analyzeVars, enhancedVars, fallbackVars, policyVars,
          serveVars>>

\* combineAndRankCandidates is not running
CombineIdle ==
  /\ semanticResults = Null
  /\ htsResults = <<>>
  /\ imageAnalysis = Null
  /\ candidates = <<>>
  /\ htsIndex = 1
  /\ uniqueCandidates = <<>>
  /\ pc = "idle"

\* analyzeProduct is not running
AnalyzeIdle ==
  /\ productData = Null
  /\ candidateMatches = <<>>
  /\ matchingHSCodes = <<>>
  /\ enhancedResult = <<>>
  /\ predictions = <<>>
  /\ branch = "none"
  /\ result = <<>>
  /\ pcA = "idle"

\* enhancedPrediction is not running on its own
EnhancedIdle ==
  /\ localPredictions = <<>>
  /\ searchAnswer = [isArray |-> FALSE]
  /\ validCodes = {}
  /\ returnedPredictions = <<>>
  /\ pcE = "idle"

\* getFallbackPredictions is not running on its own
FallbackIdle ==
  /\ fbModule = "none"
  /\ fbProduct = Null
  /\ fbPredictions = <<>>
  /\ pcF = "idle"

\* the policy functions are not running on their own
PolicyIdle ==
  /\ polCandidates = <<>>
  /\ polConfidence = 0
  /\ polRequest = Null
  /\ overallConfidence = 0
  /\ review = Null
  /\ pcP = "idle"

\* the serve handler is not running
ServeIdle ==
  /\ request = Null
  /\ htsOutcome = Null
  /\ semanticOutcome = Null
  /\ imageOutcome = Null
  /\ semanticRequest = Null
  /\ storeOutcome = Null
  /\ response = Null
  /\ hts_predictions = <<>>
  /\ pcS = "idle"

Init ==
  /\ semanticResults \in SemanticResultsInputs
  /\ htsResults \in HtsResultsInputs
  /\ imageAnalysis \in ImageAnalysisInputs
  /\ candidates = <<>>
  /\ htsIndex = 1
  /\ uniqueCandidates = <<>>
  /\ pc = "semantic"
  /\ AnalyzeIdle
  /\ EnhancedIdle
  /\ FallbackIdle
  /\ PolicyIdle
  /\ ServeIdle

\* lines 304-315
SemanticLoop ==
  /\ pc = "semantic"
  /\ candidates' = AddSemanticResults(semanticResults)
  /\ pc' = "official"
  /\ UNCHANGED <<semanticResults, htsResults, imageAnalysis, htsIndex,
                 uniqueCandidates, analyzeVars, enhancedVars, fallbackVars,
                 policyVars, serveVars>>

\* lines 317-339, one iteration
OfficialStep ==
  /\ pc = "official"
  /\ htsIndex <= Len(htsResults)
  /\ candidates' = MergeOfficialEntry(candidates, htsResults[htsIndex])
  /\ htsIndex' = htsIndex + 1
  /\ UNCHANGED <<semanticResults, htsResults, imageAnalysis, uniqueCandidates, pc,
                 analyzeVars, enhancedVars, fallbackVars,
                 policyVars, serveVars>>

\* lines 341-355
ImageLoop ==
  /\ pc = "official"
  /\ htsIndex > Len(htsResults)
  /\ candidates' = EnhanceWithImage(candidates, imageAnalysis)
  /\ pc' = "rank"
  /\ UNCHANGED <<semanticResults, htsResults, imageAnalysis, htsIndex,
                 uniqueCandidates, analyzeVars, enhancedVars, fallbackVars,
                 policyVars, serveVars>>

\* lines 357-364
RankAndReturn ==
  /\ pc = "rank"
  /\ uniqueCandidates' = UniqueCandidates(candidates)
  /\ pc' = "done"
  /\ UNCHANGED <<semanticResults, htsResults, imageAnalysis, candidates, htsIndex,
                 analyzeVars, enhancedVars, fallbackVars,
                 policyVars, serveVars>>

Next ==
  \/ SemanticLoop
  \/ OfficialStep
  \/ ImageLoop
  \/ RankAndReturn

Spec == Init /\ [][Next]_vars

(***************************************************************************)
(* analyzeProduct, statement group by statement group.                     *)
(***************************************************************************)
InitAnalyze ==
  /\ productData \in Products
  /\ candidateMatches = <<>>
  /\ matchingHSCodes = <<>>
  /\ enhancedResult = <<>>
  /\ predictions = <<>>
  /\ branch = "none"
  /\ result = <<>>
  /\ pcA = "match"
  /\ CombineIdle
  /\ EnhancedIdle
  /\ FallbackIdle
  /\ PolicyIdle
  /\ ServeIdle

\* lines 73-79: findMatchingHSCodes
FindMatching ==
  /\ pcA = "match"
  /\ candidateMatches' = CandidateMatches(productData.title, productData.description,
                                          productData.category, productData.materials)
  /\ matchingHSCodes' = ValidMatches(candidateMatches')
  /\ pcA' = "enhance"
  /\ UNCHANGED <<productData, enhancedResult, predictions, branch, result,
                 combineVars, enhancedVars, fallbackVars,
                 policyVars, serveVars>>

\* lines 87-90: HTSLookupService.enhancedPrediction on the keyword matches
CallEnhancedPrediction ==
  /\ pcA = "enhance"
  /\ \E answer \in SearchAnswers, valid \in ValidCodeSets :
       enhancedResult' =
         EnhancedPrediction(LocalPredictions(matchingHSCodes), answer, valid)
  /\ pcA' = "map"
  /\ UNCHANGED <<productData, candidateMatches, matchingHSCodes, predictions, branch,
                 result, combineVars, enhancedVars, fallbackVars,
                 policyVars, serveVars>>

\* lines 92-121: the enhanced predictions are used
UseEnhanced ==
  /\ pcA = "map"
  /\ Len(enhancedResult) > 0
  /\ ~MappingThrows(enhancedResult)
  /\ predictions' = [k \in 1..Len(enhancedResult) |->
                       EnhancedToPrediction(enhancedResult[k])]
  /\ branch' = "enhanced"
  /\ pcA' = "return"
  /\ UNCHANGED <<productData, candidateMatches, matchingHSCodes, enhancedResult,
                 result, combineVars, enhancedVars, fallbackVars,
                 policyVars, serveVars>>

\* lines 122-126: no enhanced prediction, or the mapping threw; the catch
\* block is entered and enhancedResult goes out of scope
EnhancedFailed ==
  /\ pcA = "map"
  /\ Len(enhancedResult) = 0 \/ MappingThrows(enhancedResult)
  /\ enhancedResult' = <<>>
  /\ pcA' = "catch"
  /\ UNCHANGED <<productData, candidateMatches, matchingHSCodes, predictions, branch,
                 result, combineVars, enhancedVars, fallbackVars,
                 policyVars, serveVars>>

\* line 129, false: there is no keyword match to fall back on
CatchNoMatches ==
  /\ pcA = "catch"
  /\ Len(matchingHSCodes) = 0
  /\ pcA' = "return"
  /\ UNCHANGED <<productData, candidateMatches, matchingHSCodes, enhancedResult,
                 predictions, branch, result, combineVars, enhancedVars, fallbackVars,
                 policyVars, serveVars>>

\* lines 131-174: the semantic analysis answered with matches
CatchSemantic ==
  /\ pcA = "catch"
  /\ Len(matchingHSCodes) > 0
  /\ \E semantic \in SemanticAnalysisOutcomes :
       /\ HasSemanticMatches(semantic)
       /\ predictions' = AIEnhancedPredictions(semantic.matches, matchingHSCodes)
  /\ branch' = "semantic"
  /\ pcA' = "return"
  /\ UNCHANGED <<productData, candidateMatches, matchingHSCodes, enhancedResult,
                 result, combineVars, enhancedVars, fallbackVars,
                 policyVars, serveVars>>

\* lines 131-133, 175-225: no semantic match, keyword confidence
CatchKeyword ==
  /\ pcA = "catch"
  /\ Len(matchingHSCodes) > 0
  /\ \E semantic \in SemanticAnalysisOutcomes : ~HasSemanticMatches(semantic)
  /\ predictions' = KeywordPredictions(matchingHSCodes, productData)
  /\ branch' = "keyword"
  /\ pcA' = "return"
  /\ UNCHANGED <<productData, candidateMatches, matchingHSCodes, enhancedResult,
                 result, combineVars, enhancedVars, fallbackVars,
                 policyVars, serveVars>>

\* lines 230-238, predictions empty: the fallback predictions are returned
ReturnFallback ==
  /\ pcA = "return"
  /\ Len(predictions) = 0
  /\ predictions' = GetFallbackPredictions(productData)
  /\ branch' = "fallback"
  /\ result' = Slice(predictions', 5)
  /\ pcA' = "done"
  /\ UNCHANGED <<productData, candidateMatches, matchingHSCodes, enhancedResult,
                 combineVars, enhancedVars, fallbackVars,
                 policyVars, serveVars>>

\* lines 230-238, predictions not empty
ReturnPredictions ==
  /\ pcA = "return"
  /\ Len(predictions) > 0
  /\ result' = Slice(predictions, 5)
  /\ pcA' = "done"
  /\ UNCHANGED <<productData, candidateMatches, matchingHSCodes, enhancedResult,
                 predictions, branch, combineVars, enhancedVars, fallbackVars,
                 policyVars, serveVars>>

NextAnalyze ==
  \/ FindMatching
  \/ CallEnhancedPrediction
  \/ UseEnhanced
  \/ EnhancedFailed
  \/ CatchNoMatches
  \/ CatchSemantic
  \/ CatchKeyword
  \/ ReturnFallback
  \/ ReturnPredictions

SpecAnalyze == InitAnalyze /\ [][NextAnalyze]_vars

(***************************************************************************)
(* HTSLookupService.enhancedPrediction on arbitrary local predictions.     *)
(***************************************************************************)
\* local predictions as a caller may pass them: with or without a confidence
LocalPredictionInputs ==
  [hsCode : Codes, description : {"local entry"}, confidence : {60}]
    \cup [hsCode : Codes, description : {"local entry"}]

InitEnhanced ==
  /\ localPredictions \in SeqsUpTo(LocalPredictionInputs, MaxLocal)
  /\ searchAnswer \in SearchAnswers
  /\ validCodes \in ValidCodeSets
  /\ returnedPredictions = <<>>
  /\ pcE = "call"
  /\ CombineIdle
  /\ AnalyzeIdle
  /\ FallbackIdle
  /\ PolicyIdle
  /\ ServeIdle

\* lines 467-515: the try block returns
EnhancedReturn ==
  /\ pcE = "call"
  /\ searchAnswer.isArray
  /\ returnedPredictions' = EnhancedPrediction(localPredictions, searchAnswer, validCodes)
  /\ pcE' = "done"
  /\ UNCHANGED <<localPredictions, searchAnswer, validCodes, combineVars, analyzeVars, fallbackVars,
                 policyVars, serveVars>>

\* lines 516-524: the catch block returns the local predictions
EnhancedCatch ==
  /\ pcE = "call"
  /\ ~searchAnswer.isArray
  /\ returnedPredictions' = EnhancedPrediction(localPredictions, searchAnswer, validCodes)
  /\ pcE' = "done"
  /\ UNCHANGED <<localPredictions, searchAnswer, validCodes, combineVars, analyzeVars, fallbackVars,
                 policyVars, serveVars>>

NextEnhanced ==
  \/ EnhancedReturn
  \/ EnhancedCatch

SpecEnhanced == InitEnhanced /\ [][NextEnhanced]_vars

(***************************************************************************)
(* getFallbackPredictions on every product.                                *)
(***************************************************************************)
InitFallback ==
  /\ fbModule \in FallbackModules
  /\ fbProduct \in FallbackProducts
  /\ fbPredictions = <<>>
  /\ pcF = "call"
  /\ CombineIdle
  /\ AnalyzeIdle
  /\ EnhancedIdle
  /\ PolicyIdle
  /\ ServeIdle

\* src/utils/mockAnalysis.ts, lines 247-357
FallbackOfMockAnalysis ==
  /\ pcF = "call"
  /\ fbModule = "utils/mockAnalysis.ts"
  /\ fbPredictions' = GetFallbackPredictions(fbProduct)
  /\ pcF' = "done"
  /\ UNCHANGED <<fbModule, fbProduct, combineVars, analyzeVars, enhancedVars,
                 policyVars, serveVars>>

\* src/unnamed/part_009, lines 136-153
FallbackOfPart009 ==
  /\ pcF = "call"
  /\ fbModule = "unnamed/part_009"
  /\ fbPredictions' = GetFallbackPredictionsPart009(fbProduct)
  /\ pcF' = "done"
  /\ UNCHANGED <<fbModule, fbProduct, combineVars, analyzeVars, enhancedVars,
                 policyVars, serveVars>>

NextFallback ==
  \/ FallbackOfMockAnalysis
  \/ FallbackOfPart009

SpecFallback == InitFallback /\ [][NextFallback]_vars

(***************************************************************************)
(* calculateOverallConfidence and determineHumanReviewNeed on every input. *)
(***************************************************************************)
InitPolicy ==
  /\ polCandidates \in PolicyCandidateLists
  /\ polConfidence \in PolicyConfidences
  /\ polRequest \in PolicyRequests
  /\ overallConfidence = 0
  /\ review = Null
  /\ pcP = "calculate"
  /\ CombineIdle
  /\ AnalyzeIdle
  /\ EnhancedIdle
  /\ FallbackIdle
  /\ ServeIdle

\* lines 367-388
CalculateStep ==
  /\ pcP = "calculate"
  /\ overallConfidence' = CalculateOverallConfidence(polCandidates, PolicyUnit)
  /\ pcP' = "review"
  /\ UNCHANGED <<polCandidates, polConfidence, polRequest, review, combineVars,
                 analyzeVars, enhancedVars, fallbackVars, serveVars>>

\* lines 390-432
ReviewStep ==
  /\ pcP = "review"
  /\ review' = DetermineHumanReviewNeed(polCandidates, polConfidence, polRequest,
                                        PolicyUnit)
  /\ pcP' = "done"
  /\ UNCHANGED <<polCandidates, polConfidence, polRequest, overallConfidence,
                 combineVars, analyzeVars, enhancedVars, fallbackVars, serveVars>>

NextPolicy ==
  \/ CalculateStep
  \/ ReviewStep

SpecPolicy == InitPolicy /\ [][NextPolicy]_vars

(***************************************************************************)
(* The serve handler: one request, answered by one run of the handler.     *)
(***************************************************************************)
InitServe ==
  /\ request \in ServeRequests
  /\ htsOutcome = Null
  /\ semanticOutcome = Null
  /\ imageOutcome = Null
  /\ semanticRequest = Null
  /\ storeOutcome = Null
  /\ response = Null
  /\ hts_predictions = <<>>
  /\ pcS = "received"
  /\ CombineIdle
  /\ AnalyzeIdle
  /\ EnhancedIdle
  /\ FallbackIdle
  /\ PolicyIdle

\* the handler answers without calling a collaborator
Respond(r) ==
  /\ response' = r
  /\ pcS' = "responded"
  /\ UNCHANGED <<request, htsOutcome, semanticOutcome, imageOutcome, semanticRequest,
                 storeOutcome, hts_predictions, combineVars, analyzeVars, enhancedVars,
                 fallbackVars, policyVars>>

\* lines 45-47
Preflight ==
  /\ pcS = "received"
  /\ request.method = "OPTIONS"
  /\ Respond([status |-> 200, body |-> Null])

\* lines 53-59
RejectMissingAuthorization ==
  /\ pcS = "received"
  /\ request.method # "OPTIONS"
  /\ ~IsBearer(request)
  /\ Respond([status |-> 401,
              body |-> [error |-> "Unauthorized: Missing or invalid authorization header"]])

\* lines 61-71
RejectInvalidToken ==
  /\ pcS = "received"
  /\ request.method # "OPTIONS"
  /\ IsBearer(request)
  /\ ~TokenHasUser(request)
  /\ Respond([status |-> 401, body |-> [error |-> "Unauthorized: Invalid token"]])

\* the handler has passed the authorization
Authorized ==
  /\ pcS = "received"
  /\ request.method # "OPTIONS"
  /\ IsBearer(request)
  /\ TokenHasUser(request)

\* line 74 throws on a body that is not JSON; lines 151-160
FailOnBody ==
  /\ Authorized
  /\ ~Has(request, "json")
  /\ Respond([status |-> 500, body |-> [error |-> "Unexpected end of JSON input"]])

\* lines 77-82
RejectMissingTitle ==
  /\ Authorized
  /\ Has(request, "json")
  /\ TitleMissing(request.json)
  /\ Respond([status |-> 400,
              body |-> [error |-> "Invalid request: productTitle is required"]])

\* lines 84-89
RejectLongTitle ==
  /\ Authorized
  /\ Has(request, "json")
  /\ ~TitleMissing(request.json)
  /\ Len(request.json.productTitle) > 500
  /\ Respond([status |-> 400,
              body |-> [error |-> "Invalid request: productTitle too long (max 500 characters)"]])

\* the request passes lines 45-89
Accepted ==
  /\ Authorized
  /\ Has(request, "json")
  /\ ~TitleMissing(request.json)
  /\ Len(request.json.productTitle) <= 500

\* the image analysis is called only for a request with an image
ImageOutcomesOf(data) ==
  IF Has(data, "imageUrl") /\ data.imageUrl # "" THEN ImageOutcomes
  ELSE {[kind |-> "notCalled"]}

\* lines 92-149: the pipeline, the insert into hts_predictions, the answer
Predict ==
  /\ Accepted
  /\ \E h \in HtsOutcomes, m \in SemanticOutcomes,
        i \in ImageOutcomesOf(request.json), st \in {"stored", "error"} :
       LET id == IF st = "stored" THEN "prediction-1" ELSE ""
           r == PredictionResponse(request.json, h, m, i, id)
       IN /\ r.status = 200
          /\ htsOutcome' = h
          /\ semanticRequest' = SemanticRequestBody(request.json, GetHTSSearchResults(h))
          /\ semanticOutcome' = m
          /\ imageOutcome' = i
          /\ storeOutcome' = st
          /\ hts_predictions' =
               IF st = "stored"
               THEN Append(hts_predictions,
                           [id |-> id, user_id |-> "user-1",
                            product_title |-> request.json.productTitle,
                            predicted_codes |->
                              CombineAndRankCandidates(
                                GetSemanticAnalysis(m), GetHTSSearchResults(h).data,
                                ImageAnalysisOf(request.json, i)),
                            confidence_score |-> r.body.confidence_score,
                            needs_human_review |-> r.body.needs_human_review])
               ELSE hts_predictions
          /\ response' = r
  /\ pcS' = "responded"
  /\ UNCHANGED <<request, combineVars, analyzeVars, enhancedVars, fallbackVars,
                 policyVars>>

\* line 105 throws on search data that is no list; lines 151-160
FailInPipeline ==
  /\ Accepted
  /\ \E h \in HtsOutcomes, m \in SemanticOutcomes,
        i \in ImageOutcomesOf(request.json) :
       LET r == PredictionResponse(request.json, h, m, i, "")
       IN /\ r.status = 500
          /\ htsOutcome' = h
          /\ semanticRequest' = SemanticRequestBody(request.json, GetHTSSearchResults(h))
          /\ semanticOutcome' = m
          /\ imageOutcome' = i
          /\ response' = r
  /\ pcS' = "responded"
  /\ UNCHANGED <<request, storeOutcome, hts_predictions, combineVars, analyzeVars,
                 enhancedVars, fallbackVars, policyVars>>

NextServe ==
  \/ Preflight
  \/ RejectMissingAuthorization
  \/ RejectInvalidToken
  \/ FailOnBody
  \/ RejectMissingTitle
  \/ RejectLongTitle
  \/ Predict
  \/ FailInPipeline

SpecServe == InitServe /\ [][NextServe]_vars

(***************************************************************************)
(* The pipeline of the serve handler from one await to the next (lines     *)
(* 92-149).  A call that was issued is in flight with the outcome it will  *)
(* have; a collaborator that never responds leaves its await pending.      *)
(***************************************************************************)
NoResponse == [kind |-> "noResponse"]

\* line 93: the request passed the validation and the fetch of hts-lookup is
\* in flight
InitAwait ==
  /\ request \in {r \in ServeRequests :
                    /\ r.method = "POST"
                    /\ IsBearer(r)
                    /\ TokenHasUser(r)
                    /\ Has(r, "json")
                    /\ ~TitleMissing(r.json)
                    /\ Len(r.json.productTitle) <= 500}
  /\ htsOutcome \in HtsOutcomes \cup {NoResponse}
  /\ semanticOutcome = Null
  /\ imageOutcome = Null
  /\ semanticRequest = Null
  /\ storeOutcome = Null
  /\ response = Null
  /\ hts_predictions = <<>>
  /\ pcS = "awaitHts"
  /\ CombineIdle
  /\ AnalyzeIdle
  /\ EnhancedIdle
  /\ FallbackIdle
  /\ PolicyIdle

\* lines 104-134: the collaborators have settled; the handler combines, and
\* either throws into its catch or issues the insert
CombineThenStore(image) ==
  LET r == PredictionResponse(request.json, htsOutcome, semanticOutcome, image, "")
  IN IF r.status = 500
     THEN /\ response' = r
          /\ pcS' = "responded"
          /\ UNCHANGED storeOutcome
     ELSE /\ storeOutcome' \in {"stored", "error"}
          /\ pcS' = "awaitStore"
          /\ UNCHANGED response

\* lines 93-96: await getHTSSearchResults settles, getSemanticAnalysis is
\* called with the search results
HtsSettles ==
  /\ pcS = "awaitHts"
  /\ htsOutcome.kind # "noResponse"
  /\ semanticRequest' =
       SemanticRequestBody(request.json, GetHTSSearchResults(htsOutcome))
  /\ semanticOutcome' \in SemanticOutcomes \cup {NoResponse}
  /\ pcS' = "awaitSemantic"
  /\ UNCHANGED <<request, htsOutcome, imageOutcome, storeOutcome, response,
                 hts_predictions, combineVars, analyzeVars, enhancedVars,
                 fallbackVars, policyVars>>

\* lines 96-102: await getSemanticAnalysis settles, analyzeProductImage is
\* called for a request with an image
SemanticSettles ==
  /\ pcS = "awaitSemantic"
  /\ semanticOutcome.kind # "noResponse"
  /\ IF Has(request.json, "imageUrl") /\ request.json.imageUrl # ""
     THEN /\ imageOutcome' \in ImageOutcomes \cup {NoResponse}
          /\ pcS' = "awaitImage"
          /\ UNCHANGED <<storeOutcome, response>>
     ELSE /\ imageOutcome' = [kind |-> "notCalled"]
          /\ CombineThenStore([kind |-> "notCalled"])
  /\ UNCHANGED <<request, htsOutcome, semanticOutcome, semanticRequest,
                 hts_predictions, combineVars, analyzeVars, enhancedVars,
                 fallbackVars, policyVars>>

\* lines 101-134: await analyzeProductImage settles
ImageSettles ==
  /\ pcS = "awaitImage"
  /\ imageOutcome.kind # "noResponse"
  /\ CombineThenStore(imageOutcome)
  /\ UNCHANGED <<request, htsOutcome, semanticOutcome, imageOutcome, semanticRequest,
                 hts_predictions, combineVars, analyzeVars, enhancedVars,
                 fallbackVars, policyVars>>

\* lines 117-149: the insert settles and the handler answers
StoreSettles ==
  /\ pcS = "awaitStore"
  /\ LET id == IF storeOutcome = "stored" THEN "prediction-1" ELSE ""
         r == PredictionResponse(request.json, htsOutcome, semanticOutcome,
                                 imageOutcome, id)
     IN /\ response' = r
        /\ hts_predictions' =
             IF storeOutcome = "stored"
             THEN Append(hts_predictions,
                         [id |-> id, user_id |-> "user-1",
                          product_title |-> request.json.productTitle,
                          predicted_codes |->
                            CombineAndRankCandidates(
                              GetSemanticAnalysis(semanticOutcome),
                              GetHTSSearchResults(htsOutcome).data,
                              ImageAnalysisOf(request.json, imageOutcome)),
                          confidence_score |-> r.body.confidence_score,
                          needs_human_review |-> r.body.needs_human_review])
             ELSE hts_predictions
  /\ pcS' = "responded"
  /\ UNCHANGED <<request, htsOutcome, semanticOutcome, imageOutcome, semanticRequest,
                 storeOutcome, combineVars, analyzeVars, enhancedVars, fallbackVars,
                 policyVars>>

NextAwait ==
  \/ HtsSettles
  \/ SemanticSettles
  \/ ImageSettles
  \/ StoreSettles

\* the await the handler is suspended on has an outcome to settle with
CanSettle ==
  \/ pcS = "awaitHts" /\ htsOutcome.kind # "noResponse"
  \/ pcS = "awaitSemantic" /\ semanticOutcome.kind # "noResponse"
  \/ pcS = "awaitImage" /\ imageOutcome.kind # "noResponse"
  \/ pcS = "awaitStore"

\* the handler resumes: it leaves the await it is suspended on
Resume ==
  /\ CanSettle
  /\ pcS' \in {"awaitSemantic", "awaitImage", "awaitStore", "responded"}

\* the event loop resumes the handler whenever the await it is suspended on
\* can settle; every step of NextAwait is such a step, and one is enabled
\* exactly when CanSettle holds
SpecAwait == InitAwait /\ [][NextAwait]_vars /\ WF_pcS(Resume)

(***************************************************************************)
(* Properties of the serve handler (checked under SpecServe).              *)
(***************************************************************************)
\* the handler has run the pipeline and answered
Predicted == pcS = "responded" /\ ~IsNull(htsOutcome)

\* the handler has answered with a prediction result
AnsweredWithResult == Predicted /\ response.status = 200

\* the collaborator call did not give an answer
FailedOutcome(outcome) == outcome.kind \in {"notOk", "throws"}

\* the collaborator contributed nothing to the candidates of this run
EmptyHts == Len(GetHTSSearchResults(htsOutcome).data) = 0

EmptySemantic ==
  LET semantic == GetSemanticAnalysis(semanticOutcome)
  IN Has(semantic, "matches") => Len(semantic.matches) = 0

EmptyImage == IsNull(ImageAnalysisOf(request.json, imageOutcome))

\* C17: in no classification request, whatever the collaborators return, does
\* the review reason "No suitable HTS codes found" appear in the result.
C17_NoSuitableCodesNeverReported ==
  AnsweredWithResult =>
    \/ ~Has(response.body, "review_reason")
    \/ ~Includes(response.body.review_reason, "No suitable HTS codes found")

\* C18: when all three collaborators return empty, the final result consists
\* of exactly one fallback candidate with confidence <= 80 and is flagged for
\* human review.
C18_OneFallbackWhenAllEmpty ==
  (AnsweredWithResult /\ EmptyHts /\ EmptySemantic /\ EmptyImage) =>
    /\ Len(response.body.candidates) = 1
    /\ response.body.candidates[1].confidence <= 80
    /\ response.body.needs_human_review

\* the outcome with a failed call replaced by an answer that holds nothing
HtsAnsweringNothing(outcome) ==
  IF FailedOutcome(outcome)
  THEN [kind |-> "ok", data |-> [isArray |-> TRUE, data |-> <<>>]]
  ELSE outcome

SemanticAnsweringNothing(outcome) ==
  IF FailedOutcome(outcome)
  THEN [kind |-> "ok", semanticMatches |-> [matches |-> <<>>]]
  ELSE outcome

ImageAnsweringNothing(outcome) ==
  IF FailedOutcome(outcome) THEN [kind |-> "ok", text |-> "I cannot tell."]
  ELSE outcome

\* C19: whichever of the three collaborator calls fail during a request, the
\* handler answers what it answers when those calls answer with nothing, and
\* the answer is a prediction result unless the search data that did arrive
\* is no list.
C19_FailureIsEmptyContribution ==
  (/\ Predicted
   /\ \/ FailedOutcome(htsOutcome)
      \/ FailedOutcome(semanticOutcome)
      \/ FailedOutcome(imageOutcome)) =>
    /\ response =
         PredictionResponse(request.json, HtsAnsweringNothing(htsOutcome),
                            SemanticAnsweringNothing(semanticOutcome),
                            ImageAnsweringNothing(imageOutcome),
                            IF storeOutcome = "stored" THEN "prediction-1" ELSE "")
    /\ \/ response.status = 200
       \/ /\ htsOutcome.kind = "ok"
          /\ Has(htsOutcome, "data")
          /\ ~htsOutcome.data.isArray

\* C19 witness: the search and the image analysis fail, the semantic analysis
\* answers a match, and the handler answers with that candidate.
C19_Witness ==
  /\ AnsweredWithResult
  /\ htsOutcome.kind = "throws"
  /\ imageOutcome.kind = "notOk"
  /\ ~EmptySemantic
  /\ Len(response.body.candidates) = 1

\* C20: a request of an authenticated caller is rejected iff both its title
\* and its description are empty; every other request yields a prediction
\* result.
C20_RejectedIffTitleAndDescriptionEmpty ==
  (/\ pcS = "responded"
   /\ request.method = "POST"
   /\ IsBearer(request)
   /\ TokenHasUser(request)
   /\ Has(request, "json")) =>
    LET data == request.json
        titleEmpty == Has(data, "productTitle") => data.productTitle = ""
        descriptionEmpty ==
          Has(data, "productDescription") => data.productDescription = ""
    IN (response.status # 200) <=> (titleEmpty /\ descriptionEmpty)

\* the search answered, and its data is no list of entries
MalformedHts ==
  /\ htsOutcome.kind = "ok"
  /\ Has(htsOutcome, "data")
  /\ ~htsOutcome.data.isArray

\* C21: when a collaborator returns malformed data, the malformed part is
\* discarded, the well-formed entries of the other collaborators are merged,
\* and the caller receives a prediction result, never an error response.
C21_MalformedDataDiscarded ==
  (Predicted /\ MalformedHts) =>
    /\ response.status = 200
    /\ response =
         PredictionResponse(request.json,
                            [kind |-> "ok", data |-> [isArray |-> TRUE, data |-> <<>>]],
                            semanticOutcome, imageOutcome,
                            IF storeOutcome = "stored" THEN "prediction-1" ELSE "")

\* the handler answered with a result and stored it
Stored == AnsweredWithResult /\ storeOutcome = "stored"

\* C24: the prediction handed to the store is the one returned to the caller:
\* the stored candidate list, overall confidence and review flag equal the
\* returned ones, and a failed write does not prevent the result.
C24_StoredEqualsReturned ==
  /\ Stored =>
       /\ Len(hts_predictions) = 1
       /\ hts_predictions[1].predicted_codes = response.body.candidates
       /\ hts_predictions[1].confidence_score = response.body.confidence_score
       /\ hts_predictions[1].needs_human_review = response.body.needs_human_review
  /\ (AnsweredWithResult /\ storeOutcome = "error") =>
       LET written == PredictionResponse(request.json, htsOutcome, semanticOutcome,
                                         imageOutcome, "prediction-1").body
       IN \A f \in {"candidates", "confidence_score", "needs_human_review"} :
            response.body[f] = written[f]

\* C28: the overall confidence of a response is the overall confidence of the
\* candidates returned in it.
C28_ScoreOfReturnedCandidates ==
  AnsweredWithResult =>
    response.body.confidence_score =
      CalculateOverallConfidence(response.body.candidates, 1)

(***************************************************************************)
(* Properties of the awaits of the serve handler (checked under SpecAwait). *)
(***************************************************************************)
\* C22: under fair scheduling every request with a valid descriptor is
\* eventually answered, even when a collaborator never responds.
C22_EventuallyAnswered == <>(pcS = "responded")

Returned == pc = "done"

CodesOf(arr) == {arr[k].code : k \in 1..Len(arr)}

SemanticMatchesGiven ==
  IF Has(semanticResults, "matches") THEN semanticResults.matches ELSE <<>>

RepeatsACode(arr) ==
  \E j, k \in 1..Len(arr) : j < k /\ arr[j].code = arr[k].code

\* (code, confidence, officially validated) of every element
Triples(arr) ==
  {<<arr[k].code, arr[k].confidence, Truthy(arr[k], "isOfficialMatch")>> :
     k \in 1..Len(arr)}

\* C1: the returned list holds no two candidates with the same code, whatever
\* the semantic matches, the official entries and the image analysis are
\* (codes repeated inside a source or across sources included).
C1_NoDuplicateCodes ==
  Returned =>
    \A j, k \in 1..Len(uniqueCandidates) :
      j # k => uniqueCandidates[j].code # uniqueCandidates[k].code

\* C1 witness: a code repeated inside the semantic matches, a code repeated
\* inside the official entries, and a returned list of several candidates.
C1_Witness ==
  /\ Returned
  /\ RepeatsACode(SemanticMatchesGiven)
  /\ RepeatsACode(htsResults)
  /\ Len(uniqueCandidates) = 2
  /\ Len(candidates) = 3

C4_OfficialMergeRule ==
  [][(pc = "official" /\ htsIndex <= Len(htsResults)) =>
       LET e == htsResults[htsIndex]
           k == FindIndex(candidates, e.code)
       IN IF k >= 1
          THEN /\ Len(candidates') = Len(candidates)
               /\ candidates'[k].code = e.code
               /\ candidates'[k].confidence =
                    (IF candidates[k].confidence + 20 <= 98
                     THEN candidates[k].confidence + 20 ELSE 98)
               /\ Truthy(candidates'[k], "isOfficialMatch")
          ELSE /\ Len(candidates') = Len(candidates) + 1
               /\ SubSeq(candidates', 1, Len(candidates)) = candidates
               /\ candidates'[Len(candidates')].code = e.code
               /\ candidates'[Len(candidates')].confidence = 92
               /\ Truthy(candidates'[Len(candidates')], "isOfficialMatch")]_vars

\* C4 witness: the official loop has boosted a 60 to 80, capped a boost at 98
\* and inserted a new code at 92... the first two on semantic candidates.
C4_Witness ==
  /\ pc = "official"
  /\ htsIndex = 3
  /\ \E k \in 1..Len(candidates) :
       candidates[k].confidence = 80 /\ Truthy(candidates[k], "isOfficialMatch")
  /\ \E k \in 1..Len(candidates) :
       candidates[k].confidence = 92 /\ Truthy(candidates[k], "isOfficialMatch")

\* the property f of a candidate is the same in a and in b
SameProperty(a, b, f) ==
  /\ Has(a, f) <=> Has(b, f)
  /\ Has(a, f) => a[f] = b[f]

\* C26: boosting an existing entry with an official match changes only its
\* confidence and its officially-validated flag: its code, description,
\* category and tariff information are the same after the boost as before,
\* and every other accumulated entry is unchanged.
C26_BoostFrame ==
  [][(/\ pc = "official"
      /\ htsIndex <= Len(htsResults)
      /\ FindIndex(candidates, htsResults[htsIndex].code) >= 1) =>
       LET k == FindIndex(candidates, htsResults[htsIndex].code)
       IN /\ Len(candidates') = Len(candidates)
          /\ \A j \in 1..Len(candidates) : j # k => candidates'[j] = candidates[j]
          /\ \A f \in {"code", "description", "category", "tariffInfo"} :
               SameProperty(candidates[k], candidates'[k], f)]_vars

\* the image loop has raised the candidate
IsImageConfirmed(c) == Includes(c.reasoning, " (confirmed by image analysis)")

\* C27: every candidate of the output has a confidence in [0, 100]: at most
\* 95 when it is neither officially validated nor image-confirmed, at most 98
\* when it is officially validated and not image-confirmed, at most 99 always.
C27_ConfidenceCaps ==
  Returned =>
    \A k \in 1..Len(uniqueCandidates) :
      LET c == uniqueCandidates[k]
      IN /\ c.confidence >= 0
         /\ c.confidence <= 99
         /\ (~Truthy(c, "isOfficialMatch") /\ ~IsImageConfirmed(c)) =>
              c.confidence <= 95
         /\ (Truthy(c, "isOfficialMatch") /\ ~IsImageConfirmed(c)) =>
              c.confidence <= 98

\* C27 witness: the output holds a semantic candidate capped at 95, an
\* officially validated candidate at 98, and an image-confirmed one at 99.
C27_Witness ==
  /\ Returned
  /\ \E k \in 1..Len(uniqueCandidates) :
       /\ uniqueCandidates[k].confidence = 98
       /\ Truthy(uniqueCandidates[k], "isOfficialMatch")
       /\ ~IsImageConfirmed(uniqueCandidates[k])
  /\ \E k \in 1..Len(uniqueCandidates) :
       /\ uniqueCandidates[k].confidence = 99
       /\ IsImageConfirmed(uniqueCandidates[k])
  /\ \E k \in 1..Len(SemanticMatchesGiven) :
       ConfidenceOrZero(SemanticMatchesGiven[k]) > 95

\* C30: the combiner's result does not depend on the order of the entries
\* inside the official list: every permutation of the list gives the same set
\* of (code, confidence, officially validated) triples.
C30_OfficialOrderIrrelevant ==
  Returned =>
    \A p \in Permutations(1..Len(htsResults)) :
      Triples(CombineAndRankCandidates(
                semanticResults,
                [k \in 1..Len(htsResults) |-> htsResults[p[k]]],
                imageAnalysis))
        = Triples(uniqueCandidates)

\* C5 as claimed: an official list that repeats an entry gives the same
\* combined result (codes, confidences, validation flags) as the list with
\* the repetition removed: the confidence is not boosted a second time.
C5_OfficialBoostIdempotent ==
  Returned =>
    Triples(uniqueCandidates) =
      Triples(CombineAndRankCandidates(semanticResults,
                                       FilterFirstOfCode(htsResults),
                                       imageAnalysis))

\* C7 as claimed: accumulated entries that share a code collapse to one
\* candidate whose confidence is the maximum of their confidences and which
\* is officially validated iff one of them was.
C7_CollapseKeepsMaximum ==
  Returned =>
    \A k \in 1..Len(uniqueCandidates) :
      LET same == {j \in 1..Len(candidates) :
                     candidates[j].code = uniqueCandidates[k].code}
      IN /\ \A j \in same : candidates[j].confidence <= uniqueCandidates[k].confidence
         /\ \E j \in same : candidates[j].confidence = uniqueCandidates[k].confidence
         /\ Truthy(uniqueCandidates[k], "isOfficialMatch")
              <=> \E j \in same : Truthy(candidates[j], "isOfficialMatch")

\* C8: the returned list is in non-increasing order of the final confidences
\* (those after the official boost and the image confirmation).
C8_SortedByConfidence ==
  Returned =>
    \A k \in 1..(Len(uniqueCandidates) - 1) :
      uniqueCandidates[k].confidence >= uniqueCandidates[k + 1].confidence

\* C8 witness: three candidates returned, one of them raised by the image
\* confirmation, and the accumulated order was not the returned order.
C8_Witness ==
  /\ Returned
  /\ Len(uniqueCandidates) = 3
  /\ uniqueCandidates # FilterFirstOfCode(candidates)
  /\ uniqueCandidates[1].confidence = 97
  /\ uniqueCandidates[2].confidence = 80
  /\ candidates[1].confidence = 80

(***************************************************************************)
(* Properties of analyzeProduct and of the keyword matcher (checked under  *)
(* SpecAnalyze).                                                           *)
(***************************************************************************)
AnalyzeReturned == pcA = "done"

Matched == pcA \notin {"idle", "match"}

\* matchScore of the catalog entry at position i
ScoreOf(i) == candidateMatches[i].matchScore

MatchingSet == {matchingHSCodes[k] : k \in 1..Len(matchingHSCodes)}

MatchingCodes == {hsCodeDatabase[i].code : i \in MatchingSet}

\* a returned prediction that stands for a keyword match and was not produced
\* from a semantic match
IsKeywordCandidate(prediction) ==
  /\ prediction.code \in MatchingCodes
  /\ prediction.sourceDocument.type # "AI_SEMANTIC"

\* C3: analyzeProduct returns at least 1 and at most 5 predictions, whatever
\* the descriptor, the keyword matches, the official lookup (entries, none, a
\* malformed answer) and the semantic analysis (matches, none, failure) are.
C3_BetweenOneAndFive ==
  AnalyzeReturned => Len(result) >= 1 /\ Len(result) <= 5

\* C3 witness: no keyword match, no enhanced prediction, and the fallback
\* prediction is what is returned.
C3_Witness ==
  /\ AnalyzeReturned
  /\ Len(matchingHSCodes) = 0
  /\ branch = "fallback"
  /\ Len(result) = 1
  /\ result[1].confidence = 25

\* C9: findMatchingHSCodes returns at most 5 catalog entries, each at most
\* once, in non-increasing order of match score, and every catalog entry left
\* out scores below the floor of 20 or not above the last returned entry.
C9_MatcherTopFive ==
  Matched =>
    /\ Len(matchingHSCodes) <= 5
    /\ \A j, k \in 1..Len(matchingHSCodes) :
         j # k => matchingHSCodes[j] # matchingHSCodes[k]
    /\ \A k \in 1..(Len(matchingHSCodes) - 1) :
         ScoreOf(matchingHSCodes[k]) >= ScoreOf(matchingHSCodes[k + 1])
    /\ \A i \in (1..Len(hsCodeDatabase)) \ MatchingSet :
         \/ ScoreOf(i) < 20
         \/ /\ Len(matchingHSCodes) > 0
            /\ ScoreOf(i) <= ScoreOf(matchingHSCodes[Len(matchingHSCodes)])

\* C9 witness: five entries returned with differing scores, out of catalog
\* order, while an entry that reaches the floor is left out.
C9_Witness ==
  /\ Matched
  /\ Len(matchingHSCodes) = 5
  /\ ScoreOf(matchingHSCodes[1]) > ScoreOf(matchingHSCodes[5])
  /\ \E k \in 1..4 : matchingHSCodes[k] > matchingHSCodes[k + 1]
  /\ \E i \in (1..Len(hsCodeDatabase)) \ MatchingSet : ScoreOf(i) >= 20

\* C10 as claimed: every keyword-matcher candidate that is reported has a
\* confidence in the closed range [30, 92].
C10_ConfidenceWithin30And92 ==
  AnalyzeReturned =>
    \A k \in 1..Len(result) :
      IsKeywordCandidate(result[k]) =>
        result[k].confidence >= 30 /\ result[k].confidence <= 92

\* C10 as the code has it: every keyword-matcher candidate that is reported
\* has a confidence in the closed range [35, 95] (the clamp of line 209; 85 on
\* the enhanced path; 75 and 60 next to semantic matches).
C10_ConfidenceWithin35And95 ==
  AnalyzeReturned =>
    \A k \in 1..Len(result) :
      IsKeywordCandidate(result[k]) =>
        /\ Has(result[k], "confidence")
        /\ result[k].confidence >= 35
        /\ result[k].confidence <= 95

\* C10 witness: the keyword-confidence branch reports five candidates, the
\* first one at the cap of 95 and above its unclamped rank value, the last one
\* below 70.
C10_Witness ==
  /\ AnalyzeReturned
  /\ branch = "keyword"
  /\ Len(result) = 5
  /\ result[1].confidence = 95
  /\ BaseConfidence(hsCodeDatabase[matchingHSCodes[1]], 0, productData) > 95
  /\ result[5].confidence < 70

\* the catalog entry at position i has a ProductType hit in the title or the
\* description of the descriptor being analysed
HasProductTypeHit(i) ==
  ProductTypeScore(hsCodeDatabase[i], ToLowerCase(productData.title),
                   ToLowerCase(productData.description)) > 0

\* the catalog entry at position i has a Material hit in the materials field
HasMaterialHit(i) ==
  MaterialScore(hsCodeDatabase[i], ToLowerCase(productData.materials)) > 0

\* C11: every catalog entry the keyword matcher returns has at least one
\* ProductType hit or at least one Material hit; an entry that scores only on
\* general title keywords and category words is never returned.
C11_SupportedByTypeOrMaterial ==
  Matched =>
    \A k \in 1..Len(matchingHSCodes) :
      HasProductTypeHit(matchingHSCodes[k]) \/ HasMaterialHit(matchingHSCodes[k])

\* C12: among catalog entries of equal score the keyword matcher lists the one
\* declared earlier in the catalog first, and when the cut to five falls
\* inside a tie it keeps the entries declared earlier; the order of the
\* returned list is thereby fixed by the catalog and the scores alone.
C12_TiesInCatalogOrder ==
  Matched =>
    /\ \A j, k \in 1..Len(matchingHSCodes) :
         (j < k /\ ScoreOf(matchingHSCodes[j]) = ScoreOf(matchingHSCodes[k]))
           => matchingHSCodes[j] < matchingHSCodes[k]
    /\ \A i \in (1..Len(hsCodeDatabase)) \ MatchingSet :
         \A k \in 1..Len(matchingHSCodes) :
           (ScoreOf(i) >= 20 /\ ScoreOf(i) = ScoreOf(matchingHSCodes[k]))
             => matchingHSCodes[k] < i

\* C12 witness: two returned entries tie, and the cut to five falls inside a
\* tie: an entry left out has the score of the last entry returned.
C12_Witness ==
  /\ Matched
  /\ Len(matchingHSCodes) = 5
  /\ \E j, k \in 1..5 :
       j < k /\ ScoreOf(matchingHSCodes[j]) = ScoreOf(matchingHSCodes[k])
  /\ \E i \in (1..Len(hsCodeDatabase)) \ MatchingSet :
       ScoreOf(i) = ScoreOf(matchingHSCodes[5])

\* C29: in analyzeProduct, whenever the keyword matcher returned a code, the
\* enhanced prediction is not empty and the result is built from it, without
\* a call of the semantic analysis, unless the enhanced step raises an
\* exception; the semantic and keyword-confidence branches are entered only
\* from the catch block, and with a keyword match the catch block is entered
\* only by an exception of the mapping.
C29_EnhancedPathUnlessException ==
  [][/\ (pcA = "map" /\ Len(matchingHSCodes) >= 1) =>
          (/\ Len(enhancedResult) >= Len(matchingHSCodes)
           /\ IF MappingThrows(enhancedResult)
              THEN pcA' = "catch" /\ branch' = "none"
              ELSE /\ pcA' = "return"
                   /\ branch' = "enhanced"
                   /\ Len(predictions') = Len(enhancedResult))
     /\ (branch' \in {"semantic", "keyword"} /\ branch' # branch) =>
          (pcA = "catch" /\ Len(matchingHSCodes) >= 1)
     /\ (branch = "enhanced" /\ pcA = "return") =>
          (/\ branch' = "enhanced"
           /\ pcA' = "done"
           /\ result' = Slice(predictions, 5))]_vars

\* C29 witness: the matcher returned a code and the result was built from the
\* enhanced predictions.
C29_Witness ==
  /\ AnalyzeReturned
  /\ Len(matchingHSCodes) >= 1
  /\ branch = "enhanced"
  /\ Len(result) >= 1

(***************************************************************************)
(* Properties of enhancedPrediction (checked under SpecEnhanced).          *)
(***************************************************************************)
\* C6: a single local candidate with code X and confidence 60, confirmed by a
\* single official entry with the same code X, comes back as exactly one
\* candidate with code X, confidence 80 and isOfficiallyValidated true.
C6_LocalConfirmedByOfficial ==
  (/\ pcE = "done"
   /\ Len(localPredictions) = 1
   /\ PredConfidenceOrZero(localPredictions[1]) = 60
   /\ searchAnswer.isArray
   /\ Len(searchAnswer.data) = 1
   /\ searchAnswer.data[1].code = localPredictions[1].hsCode)
    => /\ Len(returnedPredictions) = 1
       /\ EnhancedToPrediction(returnedPredictions[1]).code = localPredictions[1].hsCode
       /\ EnhancedToPrediction(returnedPredictions[1]).confidence = 80
       /\ EnhancedToPrediction(returnedPredictions[1]).isOfficiallyValidated

\* C25: a local candidate never displaces a stronger entry: for a code that
\* both the local matcher and the official search supply, the result keeps
\* the entry with the higher confidence and its official flag.
C25_LocalNeverDisplacesStronger ==
  (pcE = "done" /\ searchAnswer.isArray) =>
    \A k \in 1..Len(returnedPredictions) :
      LET kept == returnedPredictions[k]
          locals == {i \in 1..Len(localPredictions) :
                       localPredictions[i].hsCode = kept.hsCode}
          officials == {j \in 1..Len(searchAnswer.data) :
                          searchAnswer.data[j].code = kept.hsCode}
      IN (locals # {} /\ officials # {}) =>
           /\ \A i \in locals :
                PredConfidenceOrZero(kept) >= PredConfidenceOrZero(localPredictions[i])
           /\ PredConfidenceOrZero(kept) >= 95
           /\ Truthy(kept, "isOfficialMatch")

(***************************************************************************)
(* Properties of getFallbackPredictions (checked under SpecFallback).      *)
(***************************************************************************)
FallbackReturned == pcF = "done"

\* C13: getFallbackPredictions of mockAnalysis.ts tries its rules in the order
\* ceramics, textile, electronics, home: the code returned is that of the
\* first rule the product satisfies, and the generic code 3926.90.99 is
\* returned exactly when the product satisfies no rule.
C13_FirstRuleInOrder ==
  (FallbackReturned /\ fbModule = "utils/mockAnalysis.ts") =>
    /\ Len(fbPredictions) = 1
    /\ CeramicsRule(fbProduct) => fbPredictions[1].code = "6912.00.48"
    /\ (~CeramicsRule(fbProduct) /\ TextileRule(fbProduct))
         => fbPredictions[1].code = "6109.10.00"
    /\ (~CeramicsRule(fbProduct) /\ ~TextileRule(fbProduct)
          /\ ElectronicsRule(fbProduct))
         => fbPredictions[1].code = "8543.70.96"
    /\ (~CeramicsRule(fbProduct) /\ ~TextileRule(fbProduct)
          /\ ~ElectronicsRule(fbProduct) /\ HomeRule(fbProduct))
         => fbPredictions[1].code = "9403.60.80"
    /\ fbPredictions[1].code = "3926.90.99"
         <=> ~(\/ CeramicsRule(fbProduct) \/ TextileRule(fbProduct)
               \/ ElectronicsRule(fbProduct) \/ HomeRule(fbProduct))

\* C13 witness: a product that satisfies all four rules gets the ceramics code.
C13_Witness ==
  /\ FallbackReturned
  /\ fbModule = "utils/mockAnalysis.ts"
  /\ CeramicsRule(fbProduct)
  /\ TextileRule(fbProduct)
  /\ ElectronicsRule(fbProduct)
  /\ HomeRule(fbProduct)
  /\ fbPredictions[1].code = "6912.00.48"

\* C14: the fallback policy produces exactly one candidate, and its confidence
\* lies in the closed range [25, 80].
C14_OneFallbackWithin25And80 ==
  FallbackReturned =>
    /\ Len(fbPredictions) = 1
    /\ fbPredictions[1].confidence >= 25
    /\ fbPredictions[1].confidence <= 80

(***************************************************************************)
(* Properties of the policy functions (checked under SpecPolicy).          *)
(***************************************************************************)
Calculated == pcP \in {"review", "done"}

Reviewed == pcP = "done"

\* the value the reference of C15 reaches before rounding, in 1/PolicyUnit
\* points: the boost and its cap, then the reduction and its floor
ReferenceBeforeRounding ==
  LET top == polCandidates[1].confidence
      spread == IF Len(polCandidates) = 1 THEN top
                ELSE top - polCandidates[2].confidence
      validated == \E k \in 1..Len(polCandidates) :
                     Truthy(polCandidates[k], "isOfficialMatch")
      afterBoost == IF ~validated THEN top
                    ELSE IF top + (5 * PolicyUnit) > 99 * PolicyUnit
                         THEN 99 * PolicyUnit
                         ELSE top + (5 * PolicyUnit)
  IN IF spread >= 10 * PolicyUnit THEN afterBoost
     ELSE IF afterBoost < 15 * PolicyUnit THEN 0
     ELSE afterBoost - (15 * PolicyUnit)

\* C15: calculateOverallConfidence returns 0 for the empty list; otherwise the
\* integer nearest to the reference value (top confidence, +5 capped at 99
\* when a candidate is officially validated, -15 floored at 0 when the spread
\* is below 10), a half rounding up; the result lies in [0, 100].
C15_AggregateReference ==
  Calculated =>
    /\ overallConfidence >= 0
    /\ overallConfidence <= 100
    /\ Len(polCandidates) = 0 => overallConfidence = 0
    /\ Len(polCandidates) > 0 =>
         /\ 2 * (ReferenceBeforeRounding - (overallConfidence * PolicyUnit))
              < PolicyUnit
         /\ 2 * (ReferenceBeforeRounding - (overallConfidence * PolicyUnit))
              >= -PolicyUnit

\* C15 witness: top 94.5 officially validated, second 85.0: the boost is cut
\* at 99 and the spread of 9.5 takes 15 off, which gives 84.
C15_Witness ==
  /\ Calculated
  /\ Len(polCandidates) = 2
  /\ polCandidates[1].confidence = 189
  /\ Truthy(polCandidates[1], "isOfficialMatch")
  /\ polCandidates[2].confidence = 170
  /\ overallConfidence = 84

\* the four reasons, in the order of the rules
AllReasons ==
  <<"Low confidence prediction", "Multiple similar candidates",
    "Product requires special customs consideration",
    "No suitable HTS codes found">>

\* the title or the description contains the word, whatever the case
TextContains(word) ==
  \/ Includes(ToLowerCase(polRequest.productTitle), word)
  \/ /\ Has(polRequest, "productDescription")
     /\ Includes(ToLowerCase(polRequest.productDescription), word)

\* the condition of the rule that reports the reason
RuleHolds(reason) ==
  CASE reason = "Low confidence prediction" -> polConfidence < 70
    [] reason = "Multiple similar candidates" ->
         /\ Len(polCandidates) > 1
         /\ polCandidates[1].confidence - polCandidates[2].confidence
              < 15 * PolicyUnit
    [] reason = "Product requires special customs consideration" ->
         \E k \in 1..Len(reviewKeywords) : TextContains(reviewKeywords[k])
    [] reason = "No suitable HTS codes found" -> Len(polCandidates) = 0

\* C16: the reasons determineHumanReviewNeed reports are exactly those of the
\* four rules whose condition holds, in the order of the rules, and
\* needs_human_review is true exactly when a reason is reported.
C16_AllApplicableReasons ==
  Reviewed =>
    LET expected == SelectSeq(AllReasons, RuleHolds)
    IN /\ review.needs_human_review <=> Len(expected) > 0
       /\ IF Len(expected) = 0 THEN ~Has(review, "review_reason")
          ELSE review.review_reason = Join(expected, "; ")

\* C16 witness: overall confidence 65, two candidates 5 points apart, and
\* "BATTERY" in the title: three reasons are reported together.
C16_Witness ==
  /\ Reviewed
  /\ polConfidence = 65
  /\ Len(polCandidates) = 2
  /\ polCandidates[1].confidence - polCandidates[2].confidence = 5 * PolicyUnit
  /\ polRequest.productTitle = "Lithium BATTERY pack"
  /\ review.needs_human_review
  /\ review.review_reason =
       "Low confidence prediction; Multiple similar candidates; Product requires special customs consideration"

====
